---- MODULE Spec2Model ----
(***************************************************************************)
(* Portfolio ledger of openfx-ui/server.js: POST /portfolio/buy,           *)
(* POST /portfolio/sell and POST /portfolio/all on the Portfolio document  *)
(* of the authenticated user, with the Finnhub quote helper fetchQuote,    *)
(* and the accounts: POST /users/register, POST /users/login and the       *)
(* middleware verifyUserBody.                                              *)
(*                                                                         *)
(* Numbers.  Prices are integers counted in 1/10000 of a currency unit     *)
(* (the 4 decimals of toFixed(4)); amounts rounded by toFixed(2) are       *)
(* integers counted in 1/100.  Arithmetic is exact decimal arithmetic,     *)
(* toFixed rounds half away from zero.  Quantities are whole numbers.      *)
(*                                                                         *)
(* Strings.  A string is a sequence of one-character strings, so that      *)
(* trim() and uppercase() are computed and not assumed.  A value of a      *)
(* request body is a record that carries its JavaScript type.              *)
(*                                                                         *)
(* Persistence.  findOne returns a private copy of the document and        *)
(* save() writes that whole copy back (read-then-whole-document-overwrite, *)
(* spec section 5).  Every await between findOne and save is a point at    *)
(* which another request may run.                                          *)
(***************************************************************************)
EXTENDS Integers, Sequences, FiniteSets, TLC

VARIABLES
    users,      \* the User collection: a sequence of documents, in insertion order
    portfolios, \* the Portfolio collection: a sequence of documents, in insertion order
    reqs,       \* per request slot: the handler's position and its local variables
    last,       \* the HTTP response sent by the latest step, if it sent one
    now,        \* the wall clock read by new Date(); it advances between request arrivals
    variant,    \* which revision of server.js is running: "v1" or "v2"
    market,     \* the provider's price of each symbol over time
    nreq,       \* number of requests received so far
    liquidated, \* history: the symbols whose holding a sell has removed
    newsCache,  \* the server's map category -> { ts, data }
    tradePage,  \* the client component TradePage: its state, effects and requests
    app,        \* the client component App: its state and its requests
    newsList    \* the client component NewsList: its state and its requests

\* the client components
pages == <<tradePage, app, newsList>>

\* the server
server ==
    <<users, portfolios, reqs, last, now, variant, market, nreq, liquidated, newsCache>>

vars == <<server, pages>>

----------------------------------------------------------------------------
(* Bounds *)

MaxRequests == 3

\* the longest time followed, in milliseconds: two TTLs of the news cache
MaxElapsed == 120000

PriceScale == 10000
CentScale == 100

Slots == {"r1", "r2"}
SlotRank == [r \in Slots |-> IF r = "r1" THEN 1 ELSE 2]

Variants == {"v1", "v2"}

Dollars(d) == d * PriceScale

\* values of a request body
BodyUndefined == [type |-> "undefined", num |-> 0, str |-> <<>>]
BodyString(s) == [type |-> "string", num |-> 0, str |-> s]
BodyNumber(n) == [type |-> "number", num |-> n, str |-> <<>>]
BodyArray(a) == [type |-> "array", num |-> 0, str |-> a]

\* request bodies of the trades: symbol and quantity
SymX == <<"X">>
SymY == <<"Y">>
SymAAPL == <<"A", "A", "P", "L">>
InvalidInputs ==
    { <<BodyString(<<" ">>), BodyNumber(5)>>, <<BodyString(<<"x">>), BodyNumber(0)>> }
BuyInputs ==
    { <<BodyString(<<"x">>), BodyNumber(5)>>,
      <<BodyString(<<" ", "X", " ">>), BodyNumber(10)>>,
      <<BodyString(<<"Y">>), BodyNumber(5)>> }
    \cup InvalidInputs
SellInputs ==
    { <<BodyString(<<"x">>), BodyNumber(5)>>,
      <<BodyString(<<" ", "X", " ">>), BodyNumber(15)>>,
      <<BodyString(<<"Y">>), BodyNumber(5)>> }
    \cup InvalidInputs

Symbols == {SymX, SymY}

\* price histories of the provider: per symbol, the price at clock 1, 2, ..
\* (repeated cyclically)
EquityMarket ==
    [s \in Symbols |->
        IF s = SymX
        THEN <<Dollars(100), Dollars(200), Dollars(180), Dollars(120)>>
        ELSE <<Dollars(100)>>]
FxMarket ==
    [s \in Symbols |->
        IF s = SymX
        THEN <<Dollars(1), Dollars(1) + 4, Dollars(1) + 12, Dollars(1)>>
        ELSE <<Dollars(100)>>]
Markets == {EquityMarket, FxMarket}

\* a provider that also lists AAPL
AppleMarket ==
    [s \in {SymX, SymAAPL} |->
        IF s = SymX
        THEN <<Dollars(100)>>
        ELSE <<Dollars(230), Dollars(231), Dollars(229)>>]

\* the provider's field c for a symbol at clock t; 0 for a symbol it does not list
PriceAt(m, symbol, t) ==
    IF symbol \in DOMAIN m
    THEN m[symbol][((t - 1) % Len(m[symbol])) + 1]
    ELSE 0

\* Number((50 + Math.random() * 150).toFixed(2)) for the values of Math.random()
\* considered
PlaceholderPrices == {Dollars(50)}

----------------------------------------------------------------------------
(* JavaScript values *)

JsNum(v) == [finite |-> TRUE, value |-> v]
JsNaN == [finite |-> FALSE, value |-> 0]
JsNull == [finite |-> FALSE, value |-> 0]
NumberIsFinite(x) == x.finite

Abs(x) == IF x < 0 THEN -x ELSE x

\* long division: quotient and remainder of (q * den + r) * 10^digits by den
RECURSIVE LongDiv(_, _, _, _)
LongDiv(q, r, den, digits) ==
    IF digits = 0 THEN <<q, r>>
    ELSE LongDiv(q * 10 + (r * 10) \div den, (r * 10) % den, den, digits - 1)

\* faulty alternative: always the next unit above the cut-off magnitude
toFixedScaledAbove(num, den, digits) ==
    LET d == LongDiv(Abs(num) \div den, Abs(num) % den, den, digits)
    IN  IF num < 0 THEN -(d[1] + 1) ELSE d[1] + 1

\* Number(x.toFixed(..)) for x = num * 10^digits / den, den > 0, counted in the
\* unit of the last kept decimal: nearest integer, a tie goes away from zero
\* (toFixed works on the magnitude)
toFixedScaled(num, den, digits) ==
    LET d == LongDiv(Abs(num) \div den, Abs(num) % den, den, digits)
        mag == d[1] + (IF 2 * d[2] >= den THEN 1 ELSE 0)
    IN  IF num < 0 THEN -mag ELSE mag

\* faulty alternative: the decimals beyond the last kept one are cut off
toFixedTruncated(num, den) ==
    IF num < 0 THEN -(Abs(num) \div den) ELSE num \div den

toFixed(num, den) == toFixedScaled(num, den, 0)

----------------------------------------------------------------------------
(* Joi: string().uppercase().trim().required(), number().positive().required() *)

UpperChar(c) ==
    CASE c = "x" -> "X"
      [] c = "y" -> "Y"
      [] c = "a" -> "A"
      [] c = "l" -> "L"
      [] c = "p" -> "P"
      [] OTHER -> c

toUpperCase(s) == [i \in 1..Len(s) |-> UpperChar(s[i])]

RECURSIVE TrimLeft(_)
TrimLeft(s) ==
    IF s # <<>> /\ Head(s) = " " THEN TrimLeft(Tail(s)) ELSE s

RECURSIVE TrimRight(_)
TrimRight(s) ==
    IF s # <<>> /\ s[Len(s)] = " " THEN TrimRight(SubSeq(s, 1, Len(s) - 1)) ELSE s

trim(s) == TrimRight(TrimLeft(s))

\* faulty alternative: a schema without uppercase()
JoiSymbolTrimOnly(raw) == trim(raw)

JoiSymbol(raw) == toUpperCase(trim(raw))

DigitOf(c) ==
    CASE c = "0" -> 0
      [] c = "1" -> 1
      [] c = "5" -> 5
      [] OTHER -> -1

\* the number a string of decimal digits converts to, -1 for any other string
RECURSIVE DigitsValue(_)
DigitsValue(s) ==
    IF s = <<>> THEN -1
    ELSE LET d == DigitOf(s[Len(s)])
             front == SubSeq(s, 1, Len(s) - 1)
         IN  IF d < 0 THEN -1
             ELSE IF front = <<>> THEN d
             ELSE IF DigitsValue(front) < 0 THEN -1
             ELSE DigitsValue(front) * 10 + d

\* Joi.number(): a number, or a string that converts to one; else no number
JoiNumber(v) ==
    CASE v.type = "number" -> [error |-> FALSE, value |-> v.num]
      [] v.type = "string" ->
            [error |-> DigitsValue(trim(v.str)) < 0, value |-> DigitsValue(trim(v.str))]
      [] OTHER -> [error |-> TRUE, value |-> 0]

\* faulty alternative: a symbol that is empty once trimmed is let through
validateAllowEmpty(symbol, quantity) ==
    LET sym == IF symbol.type = "string" THEN JoiSymbol(symbol.str) ELSE <<>>
        qty == JoiNumber(quantity)
        error == \/ symbol.type # "string"
                 \/ qty.error
                 \/ ~(qty.value > 0)
    IN  [error |-> error,
         symbol |-> sym,
         quantity |-> IF error THEN 0 ELSE qty.value]

\* the schema of /portfolio/buy and /portfolio/sell applied to the body values:
\* value, or error
validate(symbol, quantity) ==
    LET sym == IF symbol.type = "string" THEN JoiSymbol(symbol.str) ELSE <<>>
        qty == JoiNumber(quantity)
        error == \/ symbol.type # "string"
                 \/ sym = <<>>
                 \/ qty.error
                 \/ ~(qty.value > 0)
    IN  [error |-> error,
         symbol |-> sym,
         quantity |-> IF error THEN 0 ELSE qty.value]

----------------------------------------------------------------------------
(* Quote provider and fetchQuote *)

\* what the call to finnhub can do: throw, or answer with r.ok and a body whose
\* field c converts to a number
UpstreamFor(m, symbol, t) ==
    { [threw |-> TRUE, ok |-> FALSE, c |-> JsNaN] }
    \cup { [threw |-> FALSE, ok |-> FALSE, c |-> c] :
             c \in {JsNaN, JsNum(PriceAt(m, symbol, t))} }
    \cup { [threw |-> FALSE, ok |-> TRUE, c |-> c] :
             c \in {JsNaN, JsNum(0), JsNum(-1), JsNum(PriceAt(m, symbol, t))} }

\* server.js 59-71: a valid price, else the random development price
fetchQuoteV1(up, placeholder) ==
    IF ~up.threw /\ NumberIsFinite(up.c) /\ up.c.value > 0
    THEN up.c
    ELSE JsNum(placeholder)

\* faulty alternative: a body whose c is a number is returned whatever its sign
fetchQuoteV2AnyNumber(up) ==
    IF up.threw \/ ~up.ok THEN JsNull
    ELSE IF ~NumberIsFinite(up.c) THEN JsNull
    ELSE up.c

\* server.js 327-344: a valid price, else null
fetchQuoteV2(up) ==
    IF up.threw \/ ~up.ok THEN JsNull
    ELSE IF ~NumberIsFinite(up.c) \/ up.c.value <= 0 THEN JsNull
    ELSE up.c

fetchQuote(v, up, placeholder) ==
    IF v = "v1" THEN fetchQuoteV1(up, placeholder) ELSE fetchQuoteV2(up)

\* history: did the provider deliver a usable quote
UpstreamFailed(up) ==
    up.threw \/ ~up.ok \/ ~NumberIsFinite(up.c) \/ up.c.value <= 0

----------------------------------------------------------------------------
(* Holdings *)

\* faulty alternative: a holding opened without its current price
HoldingUnpriced(symbol, quantity, buyPrice, currentPrice, addedAt) ==
    [symbol |-> symbol, quantity |-> quantity, buyPrice |-> buyPrice,
     currentPrice |-> 0, addedAt |-> addedAt,
     cost |-> buyPrice * quantity, buys |-> 1, sold |-> FALSE,
     low |-> buyPrice, high |-> buyPrice]

\* holdingSchema, plus history fields (not stored by the program):
\*   cost  = sum of tradePrice * quantity over the buys since the holding was opened
\*   buys  = number of those buys
\*   sold  = a sell has reduced the holding since it was opened
\*   low, high = the lowest and the highest tradePrice of those buys
Holding(symbol, quantity, buyPrice, currentPrice, addedAt) ==
    [symbol |-> symbol, quantity |-> quantity, buyPrice |-> buyPrice,
     currentPrice |-> currentPrice, addedAt |-> addedAt,
     cost |-> buyPrice * quantity, buys |-> 1, sold |-> FALSE,
     low |-> buyPrice, high |-> buyPrice]

\* Array.prototype.findIndex(h => h.symbol === symbol); 0 stands for -1
findIndex(holdings, symbol) ==
    IF \E i \in 1..Len(holdings) : holdings[i].symbol = symbol
    THEN CHOOSE i \in 1..Len(holdings) :
            /\ holdings[i].symbol = symbol
            /\ \A j \in 1..(i - 1) : holdings[j].symbol # symbol
    ELSE 0

\* faulty alternative: the first holding is removed, whatever idx
spliceFirst(holdings, idx) == Tail(holdings)

\* holdings.splice(idx, 1)
splice(holdings, idx) ==
    SubSeq(holdings, 1, idx - 1) \o SubSeq(holdings, idx + 1, Len(holdings))

\* faulty alternative: the plain mean of the old average and the trade price
newAvgUnweighted(h, qty, tradePrice) == toFixed(h.buyPrice + tradePrice, 2)

\* server.js 495-497: Number(newAvg.toFixed(4)) for
\* newAvg = ((h.buyPrice * h.quantity) + (tradePrice * qty)) / newQty
newAvgFixed(h, qty, tradePrice) ==
    toFixed(h.buyPrice * h.quantity + tradePrice * qty, h.quantity + qty)

\* faulty alternative: a buy on a held symbol replaces the held quantity
BuyHoldingsReplace(holdings, symbol, qty, tradePrice, date) ==
    LET idx == findIndex(holdings, symbol)
    IN  IF idx = 0
        THEN Append(holdings, Holding(symbol, qty, tradePrice, tradePrice, date))
        ELSE LET h == holdings[idx]
             IN  [holdings EXCEPT ![idx] =
                     [h EXCEPT !.quantity = qty,
                               !.buyPrice = newAvgFixed(h, qty, tradePrice),
                               !.currentPrice = tradePrice,
                               !.cost = h.cost + tradePrice * qty,
                               !.buys = h.buys + 1,
                               !.low = IF tradePrice < h.low THEN tradePrice
                                       ELSE h.low,
                               !.high = IF tradePrice > h.high THEN tradePrice
                                        ELSE h.high]]

\* server.js 489-499: the holdings after a buy at tradePrice
BuyHoldings(holdings, symbol, qty, tradePrice, date) ==
    LET idx == findIndex(holdings, symbol)
    IN  IF idx = 0
        THEN Append(holdings, Holding(symbol, qty, tradePrice, tradePrice, date))
        ELSE LET h == holdings[idx]
                 newQty == h.quantity + qty
                 newAvg == newAvgFixed(h, qty, tradePrice)
             IN  [holdings EXCEPT ![idx] =
                     [h EXCEPT !.quantity = newQty,
                               !.buyPrice = newAvg,
                               !.currentPrice = tradePrice,
                               !.cost = h.cost + tradePrice * qty,
                               !.buys = h.buys + 1,
                               !.low = IF tradePrice < h.low THEN tradePrice
                                       ELSE h.low,
                               !.high = IF tradePrice > h.high THEN tradePrice
                                        ELSE h.high]]

\* faulty alternative: the cost basis is taken from the holding's current price
RealizedPnlAtCurrent(h, qty, tradePrice) ==
    toFixed(tradePrice * qty - h.currentPrice * qty, PriceScale \div CentScale)

\* server.js 526-528: Number((proceeds - costBasis).toFixed(2)), in 1/100
RealizedPnl(h, qty, tradePrice) ==
    LET costBasis == h.buyPrice * qty
        proceeds == tradePrice * qty
    IN  toFixed(proceeds - costBasis, PriceScale \div CentScale)

\* faulty alternative: a sell of the whole holding is rejected too
SellCheckStrict(holdings, symbol, qty) ==
    LET idx == findIndex(holdings, symbol)
    IN  IF idx = 0 THEN "holding not found"
        ELSE IF qty >= holdings[idx].quantity THEN "sell quantity exceeds holding"
        ELSE ""

\* server.js 516-520: the error that rejects a sell, "" when it may proceed
SellCheck(holdings, symbol, qty) ==
    LET idx == findIndex(holdings, symbol)
    IN  IF idx = 0 THEN "holding not found"
        ELSE IF qty > holdings[idx].quantity THEN "sell quantity exceeds holding"
        ELSE ""

\* faulty alternative: the holding is decremented even when nothing of it is left
SellHoldingsKeepZero(holdings, idx, qty, tradePrice) ==
    [holdings EXCEPT ![idx] =
        [@ EXCEPT !.quantity = @ - qty,
                  !.currentPrice = tradePrice,
                  !.sold = TRUE]]

\* server.js 530-535: the holdings after a sell of qty <= held quantity
SellHoldings(holdings, idx, qty, tradePrice) ==
    LET h == holdings[idx]
    IN  IF qty = h.quantity
        THEN splice(holdings, idx)
        ELSE [holdings EXCEPT ![idx] =
                 [h EXCEPT !.quantity = h.quantity - qty,
                           !.currentPrice = tradePrice,
                           !.sold = TRUE]]

\* faulty alternative: a document changed since it was read is not overwritten
saveIfUnchanged(stored, read, p) == IF stored = read THEN p ELSE stored

\* await p.save(), for p read as `read` while the database holds `stored`: the
\* document as the handler mutated it replaces the stored one
save(stored, read, p) == p

\* [...new Set(p.holdings.map(h => h.symbol))]
SymbolsOf(holdings) == { holdings[i].symbol : i \in 1..Len(holdings) }

\* faulty alternative: the quote is added to the current price
applyQuoteAsChange(h, q) ==
    IF NumberIsFinite(q) /\ q.value > 0
    THEN [h EXCEPT !.currentPrice = h.currentPrice + q.value]
    ELSE h

\* server.js 453-454: if (Number.isFinite(q) && q > 0) h.currentPrice = q
applyQuote(h, q) ==
    IF NumberIsFinite(q) /\ q.value > 0
    THEN [h EXCEPT !.currentPrice = q.value]
    ELSE h

\* faulty alternative: a holding without a usable quote is dropped
RepriceQuotedOnly(holdings, quotes) ==
    SelectSeq([i \in 1..Len(holdings) |->
                  applyQuote(holdings[i], quotes[holdings[i].symbol])],
              LAMBDA h : NumberIsFinite(quotes[h.symbol]))

\* server.js 452-455: apply the fetched quotes to every holding
Reprice(holdings, quotes) ==
    [i \in 1..Len(holdings) |->
        applyQuote(holdings[i], quotes[holdings[i].symbol])]

----------------------------------------------------------------------------
(* Valuation returned by /portfolio/all, server.js 458-469 *)

JsNullable(isNull, v) == [null |-> isNull, v |-> IF isNull THEN 0 ELSE v]

\* faulty alternative: gainPercent is taken from the gain rounded to 2 decimals
HoldingViewOfRoundedGain(h) ==
    LET gain == toFixed(h.currentPrice - h.buyPrice, PriceScale \div CentScale)
    IN  [symbol |-> h.symbol, quantity |-> h.quantity, buyPrice |-> h.buyPrice,
         currentPrice |-> h.currentPrice,
         gain |-> gain,
         gainPercent |-> IF h.buyPrice > 0
                         THEN JsNullable(FALSE,
                                 toFixedScaled(gain * (PriceScale \div CentScale),
                                               h.buyPrice, 4))
                         ELSE JsNullable(TRUE, 0),
         addedAt |-> h.addedAt]

\* per holding: gain (1/100) and gainPercent (1/100 of a percent, or null)
HoldingView(h) ==
    LET gain == h.currentPrice - h.buyPrice
    IN  [symbol |-> h.symbol, quantity |-> h.quantity, buyPrice |-> h.buyPrice,
         currentPrice |-> h.currentPrice,
         gain |-> toFixed(gain, PriceScale \div CentScale),
         gainPercent |-> IF h.buyPrice > 0
                         THEN JsNullable(FALSE, toFixedScaled(gain, h.buyPrice, 4))
                         ELSE JsNullable(TRUE, 0),
         addedAt |-> h.addedAt]

RECURSIVE SumInvested(_)
SumInvested(holdings) ==
    IF holdings = <<>> THEN 0
    ELSE SumInvested(SubSeq(holdings, 1, Len(holdings) - 1))
         + holdings[Len(holdings)].buyPrice * holdings[Len(holdings)].quantity

RECURSIVE SumCurrent(_)
SumCurrent(holdings) ==
    IF holdings = <<>> THEN 0
    ELSE SumCurrent(SubSeq(holdings, 1, Len(holdings) - 1))
         + holdings[Len(holdings)].currentPrice * holdings[Len(holdings)].quantity

Totals(holdings) ==
    LET totalInvested == SumInvested(holdings)
        totalCurrent == SumCurrent(holdings)
        pnl == toFixed(totalCurrent - totalInvested, PriceScale \div CentScale)
    IN  [totalInvested |-> totalInvested,
         totalCurrent |-> totalCurrent,
         pnl |-> pnl,
         pnlPercent |-> IF totalInvested > 0
                        THEN JsNullable(FALSE, toFixedScaled(pnl, totalInvested, 6))
                        ELSE JsNullable(TRUE, 0)]

NoTotals ==
    [totalInvested |-> 0, totalCurrent |-> 0, pnl |-> 0, pnlPercent |-> JsNullable(TRUE, 0)]

----------------------------------------------------------------------------
(* Accounts: User and Portfolio documents, registration schema, authentication *)

Ann == <<"a", "n", "n">>
Bob == <<"b", "o", "b">>
EmailAnn == <<"a", "@", "x">>
EmailBob == <<"b", "@", "x">>
PasswordAnn == <<"p", "w", "-", "a", "n", "n", "-", "1">>
PasswordBob == <<"p", "w", "-", "b", "o", "b", "-", "1">>

\* bcrypt.hash and bcrypt.compare: a hash matches the password it was made from
hashPassword(password) == <<"$2">> \o password
comparePassword(password, hash) == hash = hashPassword(password)

\* userSchema, as User.create({ email, passwordHash, fullname, username }) fills it:
\* roles is not passed and takes its default
UserDoc(email, passwordHash, fullname, username) ==
    [email |-> email, passwordHash |-> passwordHash, fullname |-> fullname,
     username |-> username, roles |-> <<"user">>]

\* portfolioSchema
PortfolioDoc(userUsername, holdings) ==
    [userUsername |-> userUsername, holdings |-> holdings]

\* findOne: the first of the positions that match the filter; 0 stands for null
FirstOf(matches) ==
    IF matches = {} THEN 0
    ELSE CHOOSE i \in matches : \A j \in matches : i <= j

\* User.findOne({ username })
findUser(docs, username) ==
    FirstOf({i \in 1..Len(docs) : docs[i].username = username})

\* User.findOne({ $or: [{ email }, { username }] })
findUserByEmailOrUsername(docs, email, username) ==
    FirstOf({i \in 1..Len(docs) :
                docs[i].email = email \/ docs[i].username = username})

\* Portfolio.findOne({ userUsername })
findPortfolio(docs, userUsername) ==
    FirstOf({i \in 1..Len(docs) : docs[i].userUsername = userUsername})

\* the holdings of the Portfolio document findOne returns, <<>> when it returns null
HoldingsOf(docs, userUsername) ==
    IF findPortfolio(docs, userUsername) = 0 THEN <<>>
    ELSE docs[findPortfolio(docs, userUsername)].holdings

\* the unique indexes of userSchema (email, username): does an insert violate them
UserDuplicateKey(docs, doc) ==
    \E i \in 1..Len(docs) :
        docs[i].email = doc.email \/ docs[i].username = doc.username

\* the unique index of portfolioSchema (userUsername)
PortfolioDuplicateKey(docs, doc) ==
    \E i \in 1..Len(docs) : docs[i].userUsername = doc.userUsername

\* faulty alternative: the document is not written
savePortfolioNever(docs, userUsername, holdings) == docs

\* p.save() of the Portfolio document of userUsername with the holdings written
savePortfolio(docs, userUsername, holdings) ==
    [docs EXCEPT ![findPortfolio(docs, userUsername)].holdings = holdings]

\* the Portfolio.holdings of the user whose trades are followed
portfolio == HoldingsOf(portfolios, Ann)

\* Authorization header and legacy credentials of a request; a token is what
\* jwt.verify makes of it: verified or not, and the username it carries
NoToken == [username |-> <<>>, verified |-> FALSE]
Token(username) == [username |-> username, verified |-> TRUE]

LowerChar(c) ==
    CASE c = "B" -> "b"
      [] c = "E" -> "e"
      [] c = "A" -> "a"
      [] c = "R" -> "r"
      [] c = "S" -> "s"
      [] c = "I" -> "i"
      [] c = "C" -> "c"
      [] OTHER -> c

toLowerCase(s) == [i \in 1..Len(s) |-> LowerChar(s[i])]

startsWith(s, prefix) ==
    Len(s) >= Len(prefix) /\ SubSeq(s, 1, Len(prefix)) = prefix

\* faulty alternative: only the spelling 'Bearer ' is taken for a bearer header
startsWithBearerExact(scheme) ==
    startsWith(scheme, <<"B", "e", "a", "r", "e", "r", " ">>)

\* authHeader && authHeader.toLowerCase().startsWith('bearer '), on the part of the
\* header that precedes the token
startsWithBearer(scheme) ==
    startsWith(toLowerCase(scheme), <<"b", "e", "a", "r", "e", "r", " ">>)

\* a request with the Authorization header scheme + token ('' = no header) and
\* the legacy username and password
Credentials(scheme, token, username, password) ==
    [scheme |-> scheme, bearer |-> startsWithBearer(scheme), token |-> token,
     username |-> username, password |-> password]

BearerCredentials(token) ==
    Credentials(<<"B", "e", "a", "r", "e", "r", " ">>, token, <<>>, <<>>)
BodyCredentials(username, password) ==
    Credentials(<<>>, NoToken, username, password)

Unauthorized(error) == [status |-> 401, error |-> error, username |-> <<>>]
Authenticated(username) == [status |-> 200, error |-> "", username |-> username]

\* faulty alternative: the legacy credentials are not compared with the stored hash
verifyUserBodyNoPassword(docs, cred) ==
    IF cred.bearer
    THEN IF ~cred.token.verified \/ cred.token.username = <<>>
         THEN Unauthorized("invalid token")
         ELSE IF findUser(docs, cred.token.username) = 0
         THEN Unauthorized("invalid token user")
         ELSE Authenticated(docs[findUser(docs, cred.token.username)].username)
    ELSE IF trim(cred.username) = <<>> \/ trim(cred.password) = <<>>
         THEN Unauthorized("missing credentials")
         ELSE IF findUser(docs, trim(cred.username)) = 0
         THEN Unauthorized("invalid credentials")
         ELSE Authenticated(docs[findUser(docs, trim(cred.username))].username)

\* server.js 366-394: the user a request is authenticated as, or the 401 answer
verifyUserBody(docs, cred) ==
    IF cred.bearer
    THEN IF ~cred.token.verified \/ cred.token.username = <<>>
         THEN Unauthorized("invalid token")
         ELSE IF findUser(docs, cred.token.username) = 0
         THEN Unauthorized("invalid token user")
         ELSE Authenticated(docs[findUser(docs, cred.token.username)].username)
    ELSE LET username == trim(cred.username)
             password == trim(cred.password)
             idx == findUser(docs, username)
         IN  IF username = <<>> \/ password = <<>>
             THEN Unauthorized("missing credentials")
             ELSE IF idx = 0
             THEN Unauthorized("invalid credentials")
             ELSE IF ~comparePassword(password, docs[idx].passwordHash)
             THEN Unauthorized("invalid credentials")
             ELSE Authenticated(docs[idx].username)

\* a body of POST /users/register: the four fields of the schema, and roles
RegisterBody(email, password, fullname, username, roles) ==
    [email |-> email, password |-> password, fullname |-> fullname,
     username |-> username, roles |-> roles]

\* Joi.string().email(): one "@" with text on both sides
IsEmail(s) ==
    \E i \in 2..(Len(s) - 1) :
        s[i] = "@" /\ \A j \in 1..Len(s) : s[j] = "@" => j = i

AlphanumChars == {"a", "b", "n", "o", "x", "0", "1", "5"}

\* faulty alternative: the key roles, which the schema does not name, is let through
registerSchemaAllowUnknown(body) ==
    \/ body.email.type # "string" \/ ~IsEmail(body.email.str)
    \/ body.password.type # "string"
    \/ Len(body.password.str) < 8 \/ Len(body.password.str) > 200
    \/ body.fullname.type # "string"
    \/ Len(body.fullname.str) < 2 \/ Len(body.fullname.str) > 100
    \/ body.username.type # "string"
    \/ Len(body.username.str) < 3 \/ Len(body.username.str) > 30
    \/ \E i \in 1..Len(body.username.str) : body.username.str[i] \notin AlphanumChars

\* registerSchema.validate(req.body): is there an error; a key that the schema does
\* not name is one
registerSchema(body) ==
    \/ body.email.type # "string" \/ ~IsEmail(body.email.str)
    \/ body.password.type # "string"
    \/ Len(body.password.str) < 8 \/ Len(body.password.str) > 200
    \/ body.fullname.type # "string"
    \/ Len(body.fullname.str) < 2 \/ Len(body.fullname.str) > 100
    \/ body.username.type # "string"
    \/ Len(body.username.str) < 3 \/ Len(body.username.str) > 30
    \/ \E i \in 1..Len(body.username.str) : body.username.str[i] \notin AlphanumChars
    \/ body.roles.type # "undefined"

----------------------------------------------------------------------------
(* The news cache, server.js 669-672 *)

NEWS_CACHE_TTL == 60 * 1000

CategoryGeneral == <<"g", "e", "n", "e", "r", "a", "l">>
CategoryForex == <<"f", "o", "r", "e", "x">>
Categories == {CategoryGeneral, CategoryForex}

\* newsCache[category] when the map has no such key, and when it has one
NoEntry == [cached |-> FALSE, ts |-> 0, data |-> <<>>]
Entry(ts, data) == [cached |-> TRUE, ts |-> ts, data |-> data]

\* const newsCache = {}
NoNews == [c \in Categories |-> NoEntry]

\* the array of articles the provider answers for a category at time t
Articles(category, t) == <<[category |-> category, datetime |-> t]>>

\* faulty alternative: an entry of exactly the TTL is still served
FreshInclusive(cache, category, t) ==
    cache[category].cached /\ (t - cache[category].ts) <= NEWS_CACHE_TTL

\* cached && (Date.now() - cached.ts) < NEWS_CACHE_TTL
Fresh(cache, category, t) ==
    cache[category].cached /\ (t - cache[category].ts) < NEWS_CACHE_TTL

----------------------------------------------------------------------------
(* The client components when they are not on screen *)

\* TradePage.tsx 24-35: the state of the trade page.  A price of 0 stands for null
\* (a search result carries price: null, api.ts 176), a quantity of 0 for ''
NoStock == [symbol |-> <<>>, price |-> 0]
Stock(symbol) == [symbol |-> symbol, price |-> 0]

\* StockQuote (api.ts 185-194); symbol records which request the quote answers
NoQuote == [symbol |-> <<>>, currentPrice |-> 0]
StockQuote(symbol, currentPrice) == [symbol |-> symbol, currentPrice |-> currentPrice]

\* the timer of setInterval(loadQuote, 10000) with the symbol loadQuote closes over
\* and the time since it was set or last fired
QUOTE_INTERVAL == 10000
NoInterval == [active |-> FALSE, symbol |-> <<>>, since |-> 0]
Interval(symbol) == [active |-> TRUE, symbol |-> symbol, since |-> 0]

\* confirm: null, or { ok, msg }
NoConfirm == [shown |-> FALSE, ok |-> FALSE]
Confirm(ok) == [shown |-> TRUE, ok |-> ok]

\* the position of executeTrade with the values its closure holds
NoTrade == [pc |-> "idle", which |-> "buy", symbol |-> <<>>, quantity |-> 0]

\* the last response a loadQuote received and whether it was applied, and what the
\* last executeTrade that came to its end did
NoQuoteSeen == [symbol |-> <<>>, applied |-> FALSE]
NoTradeSeen == [outcome |-> "none", refreshed |-> FALSE, reset |-> FALSE]

NoTradePage ==
    [mounted |-> FALSE, selectedStock |-> NoStock, quote |-> NoQuote,
     loadingQuote |-> FALSE, fetches |-> <<>>, interval |-> NoInterval,
     quantity |-> 0, side |-> "buy", loading |-> FALSE, confirm |-> NoConfirm,
     trade |-> NoTrade, quoteSeen |-> NoQuoteSeen, tradeSeen |-> NoTradeSeen]
\* part_000 38-56: the state of App.  A portfolio and the holdings mapped from it
\* are told apart by the user they were loaded for
NoUser == <<>>
NoPortfolio == [username |-> NoUser, loaded |-> FALSE]
PortfolioResponse(username) == [username |-> username, loaded |-> TRUE]

\* the call of login() that onLoginSuccess awaits (line 67)
NoLogin == [pending |-> FALSE, username |-> NoUser, password |-> <<>>]

\* the most recent login response that was successful: whom it was for and whether
\* its user.roles listed 'admin'
NoLoginSeen == [username |-> NoUser, admin |-> FALSE]

NoApp ==
    [mounted |-> FALSE, route |-> "login", role |-> "user", isAuthed |-> FALSE,
     apiPortfolio |-> NoPortfolio, holdings |-> NoPortfolio,
     authUsername |-> NoUser, authPassword |-> <<>>, authToken |-> NoToken,
     authLoading |-> FALSE, authError |-> FALSE,
     portfolioLoading |-> FALSE, portfolioError |-> FALSE,
     login |-> NoLogin, loads |-> <<>>, loginSeen |-> NoLoginSeen]
\* news-list.tsx 7-9: the state of NewsList; items are told apart by the response
\* they came with, <<>> is the empty list
NoItems == <<>>

\* the fetch of the news that was started last, once it is answered
NoNewsSeen == [answered |-> FALSE, ok |-> FALSE, data |-> NoItems]

NoNewsList ==
    [mounted |-> FALSE, items |-> NoItems, loading |-> FALSE, error |-> FALSE,
     fetches |-> <<>>, newsSeen |-> NoNewsSeen]

PagesClosed ==
    /\ tradePage = NoTradePage
    /\ app = NoApp
    /\ newsList = NoNewsList

----------------------------------------------------------------------------
(* Requests and responses *)

NoBody == RegisterBody(BodyUndefined, BodyUndefined, BodyUndefined, BodyUndefined,
                       BodyUndefined)

NoTradeBody == <<BodyUndefined, BodyUndefined>>

\* a handler between two of its awaits: cred = the credentials of the request,
\* user = req.user.username, body = symbol and quantity of req.body, p = the
\* document Portfolio.findOne gave it, register and passwordHash = the body and the
\* hash of a registration
Idle ==
    [pc |-> "idle", cred |-> BearerCredentials(NoToken),
     user |-> <<>>, body |-> NoTradeBody,
     raw |-> <<>>, symbol |-> <<>>, quantity |-> 0,
     p |-> <<>>, register |-> NoBody, passwordHash |-> <<>>,
     category |-> <<>>]

\* res.json(..) / res.status(..).json(..); before = the document as the handler
\* read it, dbBefore = the persisted document just before the responding step,
\* quoted = fetchQuote was called, upstreamFailed = the provider gave no usable quote,
\* failedSymbols = the symbols for which it gave none; cred and body = what the
\* request carried, user = the username it was authenticated as, readPortfolio =
\* Portfolio.findOne was called, register = the body of a registration, created =
\* its User.create inserted a document, query = req.query.symbol and currentPrice =
\* the field of that name in the answer of /stocks/quote, category and data = the
\* category and the payload of an answer of /news, cacheBefore = newsCache just
\* before the responding step, usersBefore and portfoliosBefore = the two
\* collections just before the responding step
NoResponse ==
    [op |-> "none", status |-> 0, error |-> "",
     raw |-> <<>>, symbol |-> <<>>, quantity |-> 0,
     tradePrice |-> 0, realizedPnl |-> 0, holdingQuantity |-> 0,
     portfolio |-> <<>>, totals |-> NoTotals, holdings |-> <<>>,
     before |-> <<>>, dbBefore |-> <<>>,
     quoted |-> FALSE, upstreamFailed |-> FALSE, failedSymbols |-> {},
     cred |-> BearerCredentials(NoToken), user |-> <<>>,
     body |-> NoTradeBody, readPortfolio |-> FALSE,
     register |-> NoBody, created |-> FALSE, roles |-> <<>>, token |-> NoToken,
     query |-> BodyUndefined, currentPrice |-> 0,
     category |-> <<>>, data |-> <<>>, cacheBefore |-> NoNews,
     usersBefore |-> <<>>, portfoliosBefore |-> <<>>]

\* the portfolio after the trades buy 10 X, buy 10 X at clock 1 and 2 of EquityMarket
OpenedPortfolio ==
    BuyHoldings(BuyHoldings(<<>>, SymX, 10, PriceAt(EquityMarket, SymX, 1), 1),
                SymX, 10, PriceAt(EquityMarket, SymX, 2), 2)

\* the account of Ann as POST /users/register leaves it
AnnRegistered ==
    UserDoc(EmailAnn, hashPassword(PasswordAnn), Ann, Ann)

\* the credentials of the requests of Spec: the token POST /users/login gave Ann
AnnCredentials == BearerCredentials(Token(Ann))

\* the server starts on the new account of Ann, or on her account after its first
\* two trades
Init ==
    /\ variant \in Variants
    /\ market \in Markets
    /\ users = <<AnnRegistered>>
    /\ \/ portfolios = <<PortfolioDoc(Ann, <<>>)>> /\ now = 0
       \/ /\ market = EquityMarket
          /\ portfolios = <<PortfolioDoc(Ann, OpenedPortfolio)>>
          /\ now = 2
    /\ reqs = [r \in Slots |-> Idle]
    /\ last = NoResponse
    /\ nreq = 0
    /\ liquidated = {}
    /\ newsCache = NoNews
    /\ PagesClosed

\* a request arrives: it is counted, the clock has advanced, and it is served
\* by the first free slot
Arrive(r) ==
    /\ reqs[r].pc = "idle"
    /\ \A o \in Slots : SlotRank[o] < SlotRank[r] => reqs[o].pc # "idle"
    /\ nreq < MaxRequests
    /\ nreq' = nreq + 1
    /\ now' = now + 1

\* what a handler behind verifyUserBody answers before it awaits its first quote
Received(op, cred, symbol, quantity) ==
    [NoResponse EXCEPT !.op = op, !.cred = cred,
        !.body = <<symbol, quantity>>,
        !.raw = symbol.str, !.quantity = quantity.num,
        !.dbBefore = portfolio,
        !.usersBefore = users, !.portfoliosBefore = portfolios]

----------------------------------------------------------------------------
(* POST /portfolio/buy, server.js 473-503 *)

\* verifyUserBody, validation and Portfolio.findOne; the handler then awaits
\* fetchQuote
BuyStart(r, cred, symbol, quantity) ==
    /\ Arrive(r)
    /\ LET auth == verifyUserBody(users, cred)
           v == validate(symbol, quantity)
           answer == Received("buy", cred, symbol, quantity)
           known == [answer EXCEPT !.user = auth.username]
       IN  IF auth.status = 401
           THEN /\ last' = [answer EXCEPT !.status = 401, !.error = auth.error]
                /\ UNCHANGED reqs
           ELSE IF v.error
           THEN /\ last' = [known EXCEPT !.status = 400,
                               !.error = "validation error"]
                /\ UNCHANGED reqs
           ELSE IF findPortfolio(portfolios, auth.username) = 0
           THEN /\ last' = [known EXCEPT !.status = 404,
                               !.error = "portfolio not found",
                               !.readPortfolio = TRUE]
                /\ UNCHANGED reqs
           ELSE /\ reqs' = [reqs EXCEPT ![r] =
                               [Idle EXCEPT !.pc = "buy", !.cred = cred,
                                   !.user = auth.username,
                                   !.body = <<symbol, quantity>>,
                                   !.raw = symbol.str,
                                   !.symbol = v.symbol, !.quantity = v.quantity,
                                   !.p = HoldingsOf(portfolios, auth.username)]]
                /\ last' = NoResponse
    /\ UNCHANGED <<users, portfolios, variant, market, newsCache, pages, liquidated>>

\* fetchQuote resolves; the handler mutates its copy, saves it and answers
BuyFinish(r) ==
    /\ reqs[r].pc = "buy"
    /\ \E up \in UpstreamFor(market, reqs[r].symbol, now),
          placeholder \in PlaceholderPrices :
       LET q == reqs[r]
           stored == HoldingsOf(portfolios, q.user)
           tradePrice == fetchQuote(variant, up, placeholder)
           answer == [NoResponse EXCEPT !.op = "buy", !.raw = q.raw,
                         !.symbol = q.symbol, !.quantity = q.quantity,
                         !.before = q.p, !.dbBefore = stored,
                         !.quoted = TRUE, !.upstreamFailed = UpstreamFailed(up),
                         !.cred = q.cred, !.user = q.user, !.body = q.body,
                         !.readPortfolio = TRUE,
                         !.usersBefore = users, !.portfoliosBefore = portfolios]
       IN  IF variant = "v2" /\ ~NumberIsFinite(tradePrice)
           THEN /\ last' = [answer EXCEPT !.status = 502,
                               !.error = "trade price unavailable"]
                /\ UNCHANGED portfolios
           ELSE LET saved == BuyHoldings(q.p, q.symbol, q.quantity,
                                         tradePrice.value, now)
                IN  /\ portfolios' = savePortfolio(portfolios, q.user,
                                                   save(stored, q.p, saved))
                    /\ last' = [answer EXCEPT !.status = 200,
                                   !.tradePrice = tradePrice.value,
                                   !.portfolio = saved]
    /\ reqs' = [reqs EXCEPT ![r] = Idle]
    /\ UNCHANGED <<users, now, variant, market, newsCache, pages, nreq, liquidated>>

----------------------------------------------------------------------------
(* POST /portfolio/sell, server.js 506-539 *)

\* verifyUserBody, validation, Portfolio.findOne and the two holding checks
SellStart(r, cred, symbol, quantity) ==
    /\ Arrive(r)
    /\ LET auth == verifyUserBody(users, cred)
           v == validate(symbol, quantity)
           p == HoldingsOf(portfolios, auth.username)
           idx == findIndex(p, v.symbol)
           check == SellCheck(p, v.symbol, v.quantity)
           answer == Received("sell", cred, symbol, quantity)
           known == [answer EXCEPT !.user = auth.username]
           found == [known EXCEPT !.symbol = v.symbol, !.before = p,
                        !.quantity = v.quantity, !.readPortfolio = TRUE]
       IN  IF auth.status = 401
           THEN /\ last' = [answer EXCEPT !.status = 401, !.error = auth.error]
                /\ UNCHANGED reqs
           ELSE IF v.error
           THEN /\ last' = [known EXCEPT !.status = 400,
                               !.error = "validation error"]
                /\ UNCHANGED reqs
           ELSE IF findPortfolio(portfolios, auth.username) = 0
           THEN /\ last' = [known EXCEPT !.status = 404,
                               !.error = "portfolio not found",
                               !.readPortfolio = TRUE]
                /\ UNCHANGED reqs
           ELSE IF check = "holding not found"
           THEN /\ last' = [found EXCEPT !.status = 404, !.error = check]
                /\ UNCHANGED reqs
           ELSE IF check = "sell quantity exceeds holding"
           THEN /\ last' = [found EXCEPT !.status = 400, !.error = check,
                               !.holdingQuantity = p[idx].quantity]
                /\ UNCHANGED reqs
           ELSE /\ reqs' = [reqs EXCEPT ![r] =
                               [Idle EXCEPT !.pc = "sell", !.cred = cred,
                                   !.user = auth.username,
                                   !.body = <<symbol, quantity>>,
                                   !.raw = symbol.str,
                                   !.symbol = v.symbol, !.quantity = v.quantity,
                                   !.p = p]]
                /\ last' = NoResponse
    /\ UNCHANGED <<users, portfolios, variant, market, newsCache, pages, liquidated>>

\* fetchQuote resolves; realized P&L, mutation of the copy, save, answer
SellFinish(r) ==
    /\ reqs[r].pc = "sell"
    /\ \E up \in UpstreamFor(market, reqs[r].symbol, now),
          placeholder \in PlaceholderPrices :
       LET q == reqs[r]
           stored == HoldingsOf(portfolios, q.user)
           idx == findIndex(q.p, q.symbol)
           h == q.p[idx]
           tradePrice == fetchQuote(variant, up, placeholder)
           answer == [NoResponse EXCEPT !.op = "sell", !.raw = q.raw,
                         !.symbol = q.symbol, !.quantity = q.quantity,
                         !.before = q.p, !.dbBefore = stored,
                         !.quoted = TRUE, !.upstreamFailed = UpstreamFailed(up),
                         !.cred = q.cred, !.user = q.user, !.body = q.body,
                         !.readPortfolio = TRUE,
                         !.usersBefore = users, !.portfoliosBefore = portfolios]
       IN  IF variant = "v2" /\ ~NumberIsFinite(tradePrice)
           THEN /\ last' = [answer EXCEPT !.status = 502,
                               !.error = "trade price unavailable"]
                /\ UNCHANGED <<portfolios, liquidated>>
           ELSE LET saved == SellHoldings(q.p, idx, q.quantity, tradePrice.value)
                IN  /\ portfolios' = savePortfolio(portfolios, q.user,
                                                   save(stored, q.p, saved))
                    /\ last' = [answer EXCEPT !.status = 200,
                                   !.tradePrice = tradePrice.value,
                                   !.realizedPnl =
                                       RealizedPnl(h, q.quantity, tradePrice.value),
                                   !.portfolio = saved]
                    /\ liquidated' = IF q.quantity = h.quantity /\ q.user = Ann
                                     THEN liquidated \cup {q.symbol}
                                     ELSE liquidated
    /\ reqs' = [reqs EXCEPT ![r] = Idle]
    /\ UNCHANGED <<users, now, variant, market, newsCache, pages, nreq>>

----------------------------------------------------------------------------
(* POST /portfolio/all, server.js 443-470 *)

\* verifyUserBody and Portfolio.findOne; the handler then awaits one fetchQuote
\* per held symbol
AllStart(r, cred) ==
    /\ Arrive(r)
    /\ LET auth == verifyUserBody(users, cred)
           answer == Received("all", cred, BodyUndefined, BodyUndefined)
       IN  IF auth.status = 401
           THEN /\ last' = [answer EXCEPT !.status = 401, !.error = auth.error]
                /\ UNCHANGED reqs
           ELSE IF findPortfolio(portfolios, auth.username) = 0
           THEN /\ last' = [answer EXCEPT !.status = 404,
                               !.error = "portfolio not found",
                               !.user = auth.username, !.readPortfolio = TRUE]
                /\ UNCHANGED reqs
           ELSE /\ reqs' = [reqs EXCEPT ![r] =
                               [Idle EXCEPT !.pc = "all", !.cred = cred,
                                   !.user = auth.username,
                                   !.p = HoldingsOf(portfolios, auth.username)]]
                /\ last' = NoResponse
    /\ UNCHANGED <<users, portfolios, variant, market, newsCache, pages, liquidated>>

\* the quotes resolve; prices are applied, the copy is saved, totals are answered
AllFinish(r) ==
    /\ reqs[r].pc = "all"
    /\ LET q == reqs[r]
           stored == HoldingsOf(portfolios, q.user)
           symbols == SymbolsOf(q.p)
       IN  \E ups \in [symbols -> UNION {UpstreamFor(market, s, now) : s \in symbols}],
              placeholders \in [symbols -> PlaceholderPrices] :
              /\ \A s \in symbols : ups[s] \in UpstreamFor(market, s, now)
              /\ LET quotes == [s \in symbols |->
                                   fetchQuote(variant, ups[s], placeholders[s])]
                     saved == Reprice(q.p, quotes)
                 IN  /\ portfolios' = savePortfolio(portfolios, q.user,
                                                    save(stored, q.p, saved))
                     /\ last' = [NoResponse EXCEPT !.op = "all",
                                    !.status = 200, !.before = q.p,
                                    !.dbBefore = stored,
                                    !.quoted = (symbols # {}),
                                    !.upstreamFailed =
                                        (\E s \in symbols : UpstreamFailed(ups[s])),
                                    !.failedSymbols =
                                        {s \in symbols : UpstreamFailed(ups[s])},
                                    !.portfolio = saved,
                                    !.totals = Totals(saved),
                                    !.holdings = [i \in 1..Len(saved) |->
                                                     HoldingView(saved[i])],
                                    !.cred = q.cred, !.user = q.user,
                                    !.readPortfolio = TRUE,
                                    !.usersBefore = users,
                                    !.portfoliosBefore = portfolios]
    /\ reqs' = [reqs EXCEPT ![r] = Idle]
    /\ UNCHANGED <<users, now, variant, market, newsCache, pages, nreq, liquidated>>

----------------------------------------------------------------------------

Next ==
    \/ \E r \in Slots, in \in BuyInputs : BuyStart(r, AnnCredentials, in[1], in[2])
    \/ \E r \in Slots : BuyFinish(r)
    \/ \E r \in Slots, in \in SellInputs : SellStart(r, AnnCredentials, in[1], in[2])
    \/ \E r \in Slots : SellFinish(r)
    \/ \E r \in Slots : AllStart(r, AnnCredentials)
    \/ \E r \in Slots : AllFinish(r)

Spec == Init /\ [][Next]_vars

----------------------------------------------------------------------------
(* POST /users/register, server.js 404-423 *)

\* what becomes of a handler whose awaited promise rejects and that has no catch:
\* the framework answers 500, or the request is never answered, or the process
\* exits on the unhandled rejection and the other handlers in flight are lost
Rejections == {"500", "unanswered", "exit"}

Registering(body) ==
    [NoResponse EXCEPT !.op = "register", !.register = body,
        !.usersBefore = users, !.portfoliosBefore = portfolios]

\* registerSchema.validate and User.findOne; the handler then awaits hashPassword
RegisterStart(r, body) ==
    /\ Arrive(r)
    /\ LET answer == Registering(body)
       IN  IF registerSchema(body)
           THEN /\ last' = [answer EXCEPT !.status = 400, !.error = "error.message"]
                /\ UNCHANGED reqs
           ELSE IF findUserByEmailOrUsername(users, body.email.str,
                                             body.username.str) # 0
           THEN /\ last' = [answer EXCEPT !.status = 409,
                               !.error = "email or username exists"]
                /\ UNCHANGED reqs
           ELSE /\ reqs' = [reqs EXCEPT ![r] =
                               [Idle EXCEPT !.pc = "register", !.register = body]]
                /\ last' = NoResponse
    /\ UNCHANGED <<users, portfolios, variant, market, newsCache, pages, liquidated>>

\* hashPassword resolves and User.create is awaited: the insert, or the duplicate
\* key error of a unique index, which nothing catches
RegisterCreateUser(r) ==
    /\ reqs[r].pc = "register"
    /\ LET body == reqs[r].register
           passwordHash == hashPassword(body.password.str)
           user == UserDoc(body.email.str, passwordHash, body.fullname.str,
                           body.username.str)
           answer == Registering(body)
       IN  IF UserDuplicateKey(users, user)
           THEN \E rejection \in Rejections :
                   /\ last' = [answer EXCEPT
                                  !.status = IF rejection = "500" THEN 500 ELSE 0,
                                  !.error = rejection]
                   /\ reqs' = IF rejection = "exit"
                              THEN [o \in Slots |-> Idle]
                              ELSE [reqs EXCEPT ![r] = Idle]
                   /\ UNCHANGED users
           ELSE /\ users' = Append(users, user)
                /\ reqs' = [reqs EXCEPT ![r] =
                               [Idle EXCEPT !.pc = "portfolio", !.register = body,
                                   !.user = user.username,
                                   !.passwordHash = passwordHash]]
                /\ last' = NoResponse
    /\ UNCHANGED <<portfolios, now, variant, market, newsCache, pages, nreq, liquidated>>

\* Portfolio.create({ userUsername: user.username, holdings: [] }) and the answer
RegisterCreatePortfolio(r) ==
    /\ reqs[r].pc = "portfolio"
    /\ LET q == reqs[r]
           p == PortfolioDoc(q.user, <<>>)
           answer == [Registering(q.register) EXCEPT !.user = q.user]
       IN  IF PortfolioDuplicateKey(portfolios, p)
           THEN \E rejection \in Rejections :
                   /\ last' = [answer EXCEPT
                                  !.status = IF rejection = "500" THEN 500 ELSE 0,
                                  !.error = rejection, !.created = TRUE]
                   /\ reqs' = IF rejection = "exit"
                              THEN [o \in Slots |-> Idle]
                              ELSE [reqs EXCEPT ![r] = Idle]
                   /\ UNCHANGED portfolios
           ELSE /\ portfolios' = Append(portfolios, p)
                /\ reqs' = [reqs EXCEPT ![r] = Idle]
                /\ last' = [answer EXCEPT !.status = 200, !.created = TRUE,
                               !.roles = users[findUser(users, q.user)].roles]
    /\ UNCHANGED <<users, now, variant, market, newsCache, pages, nreq, liquidated>>

----------------------------------------------------------------------------
(* POST /users/login, server.js 425-439 *)

\* credentialsSchema().validate, User.findOne, comparePassword, jwt.sign
Login(r, username, password) ==
    /\ Arrive(r)
    /\ LET idx == findUser(users, username.str)
           answer == [NoResponse EXCEPT !.op = "login",
                         !.cred = BodyCredentials(username.str, password.str),
                         !.usersBefore = users, !.portfoliosBefore = portfolios]
       IN  last' =
              IF \/ username.type # "string" \/ username.str = <<>>
                 \/ password.type # "string"
                 \/ Len(password.str) < 8 \/ Len(password.str) > 200
              THEN [answer EXCEPT !.status = 400, !.error = "error.message"]
              ELSE IF idx = 0
              THEN [answer EXCEPT !.status = 401, !.error = "invalid credentials"]
              ELSE IF ~comparePassword(password.str, users[idx].passwordHash)
              THEN [answer EXCEPT !.status = 401, !.error = "invalid credentials"]
              ELSE [answer EXCEPT !.status = 200,
                       !.user = users[idx].username,
                       !.roles = users[idx].roles,
                       !.token = Token(users[idx].username)]
    /\ UNCHANGED <<users, portfolios, reqs, variant, market, newsCache, pages,
                   liquidated>>

----------------------------------------------------------------------------
(* Accounts and their portfolios: two users, registration, login and trades *)

BobBody == RegisterBody(BodyString(EmailBob), BodyString(PasswordBob),
                        BodyString(Bob), BodyString(Bob), BodyUndefined)

\* registrations: of Bob, of Bob asking for the admin role, with the email of
\* Ann, with the username of Ann, with a short password
RegisterBodies ==
    { BobBody,
      [BobBody EXCEPT !.roles = BodyArray(<<"admin">>)],
      [BobBody EXCEPT !.email = BodyString(EmailAnn)],
      [BobBody EXCEPT !.username = BodyString(Ann)],
      [BobBody EXCEPT !.password = BodyString(<<"p", "w">>)] }

\* logins: of Ann, of Bob, of Bob with the password of Ann, without password
LoginBodies ==
    { <<BodyString(Ann), BodyString(PasswordAnn)>>,
      <<BodyString(Bob), BodyString(PasswordBob)>>,
      <<BodyString(Bob), BodyString(PasswordAnn)>>,
      <<BodyString(Ann), BodyUndefined>> }

\* credentials of a trade: the tokens of Ann and of Bob, a token that does not
\* verify, the legacy credentials of Bob, and the username of Ann with the
\* password of Bob
TradeCredentials ==
    { AnnCredentials,
      BearerCredentials(Token(Bob)),
      BearerCredentials(NoToken),
      BodyCredentials(Bob, PasswordBob),
      BodyCredentials(Ann, PasswordBob) }

TradeBodies == { <<BodyString(<<"x">>), BodyNumber(5)>> }

\* the server starts with the account of Ann and her empty portfolio
AccountInit ==
    /\ variant \in Variants
    /\ market = EquityMarket
    /\ users = <<AnnRegistered>>
    /\ portfolios = <<PortfolioDoc(Ann, <<>>)>>
    /\ now = 0
    /\ reqs = [r \in Slots |-> Idle]
    /\ last = NoResponse
    /\ nreq = 0
    /\ liquidated = {}
    /\ newsCache = NoNews
    /\ PagesClosed

AccountNext ==
    \/ \E r \in Slots, body \in RegisterBodies : RegisterStart(r, body)
    \/ \E r \in Slots : RegisterCreateUser(r)
    \/ \E r \in Slots : RegisterCreatePortfolio(r)
    \/ \E r \in Slots, in \in LoginBodies : Login(r, in[1], in[2])
    \/ \E r \in Slots, cred \in TradeCredentials, in \in TradeBodies :
          BuyStart(r, cred, in[1], in[2])
    \/ \E r \in Slots : BuyFinish(r)
    \/ \E r \in Slots, cred \in TradeCredentials, in \in TradeBodies :
          SellStart(r, cred, in[1], in[2])
    \/ \E r \in Slots : SellFinish(r)
    \/ \E r \in Slots, cred \in TradeCredentials : AllStart(r, cred)
    \/ \E r \in Slots : AllFinish(r)

AccountSpec == AccountInit /\ [][AccountNext]_vars

----------------------------------------------------------------------------
(* GET /stocks/quote, server.js 543-609 *)

\* String(req.query.symbol || '').trim().toUpperCase()
QuerySymbol(query) ==
    IF query.type = "string" THEN toUpperCase(trim(query.str)) ELSE <<>>

\* symbol === 'AAPL'
Blocked(query) == QuerySymbol(query) = SymAAPL

\* the whole handler: the two early answers, then the fetch and its outcomes
StocksQuote(r, query) ==
    /\ Arrive(r)
    /\ LET symbol == QuerySymbol(query)
           answer == [NoResponse EXCEPT !.op = "quote", !.query = query,
                         !.symbol = symbol,
                         !.usersBefore = users, !.portfoliosBefore = portfolios]
       IN  IF symbol = <<>>
           THEN last' = [answer EXCEPT !.status = 400,
                            !.error = "missing symbol parameter"]
           ELSE IF Blocked(query)
           THEN last' = [answer EXCEPT !.status = 404,
                            !.error = "quote unavailable for symbol"]
           ELSE \E up \in UpstreamFor(market, symbol, now') :
                   LET fetched == [answer EXCEPT !.quoted = TRUE,
                                      !.upstreamFailed = UpstreamFailed(up)]
                   IN  last' =
                          IF up.threw
                          THEN [fetched EXCEPT !.status = 500,
                                   !.error = "quote fetch failed"]
                          ELSE IF ~up.ok
                          THEN [fetched EXCEPT !.status = 502,
                                   !.error = "quote fetch failed"]
                          ELSE IF ~NumberIsFinite(up.c)
                          THEN [fetched EXCEPT !.status = 502,
                                   !.error = "invalid quote data"]
                          ELSE [fetched EXCEPT !.status = 200,
                                   !.currentPrice = up.c.value]
    /\ UNCHANGED <<users, portfolios, reqs, variant, market, newsCache, pages,
                   liquidated>>

\* symbols as a client writes them
QuoteQueries ==
    { BodyString(<<"a", "a", "p", "l">>),
      BodyString(<<" ", "A", "A", "P", "L", " ">>),
      BodyString(<<"x">>),
      BodyString(<<" ">>),
      BodyUndefined }

AppleBodies ==
    { <<BodyString(<<"a", "a", "p", "l">>), BodyNumber(5)>>,
      <<BodyString(<<"x">>), BodyNumber(5)>> }

\* the revision of the server that has the route, on a provider that lists AAPL
QuoteInit ==
    /\ variant = "v2"
    /\ market = AppleMarket
    /\ users = <<AnnRegistered>>
    /\ portfolios = <<PortfolioDoc(Ann, <<>>)>>
    /\ now = 0
    /\ reqs = [r \in Slots |-> Idle]
    /\ last = NoResponse
    /\ nreq = 0
    /\ liquidated = {}
    /\ newsCache = NoNews
    /\ PagesClosed

QuoteNext ==
    \/ \E r \in Slots, query \in QuoteQueries : StocksQuote(r, query)
    \/ \E r \in Slots, in \in AppleBodies : BuyStart(r, AnnCredentials, in[1], in[2])
    \/ \E r \in Slots : BuyFinish(r)
    \/ \E r \in Slots, in \in AppleBodies : SellStart(r, AnnCredentials, in[1], in[2])
    \/ \E r \in Slots : SellFinish(r)
    \/ \E r \in Slots : AllStart(r, AnnCredentials)
    \/ \E r \in Slots : AllFinish(r)

QuoteSpec == QuoteInit /\ [][QuoteNext]_vars

----------------------------------------------------------------------------
(* GET /news, server.js 674-693 *)

\* String(req.query.category || 'general')
QueryCategory(query) ==
    IF query.type = "string" /\ query.str # <<>> THEN query.str ELSE CategoryGeneral

\* the cache is read: a fresh entry is answered, else the handler awaits the fetch
NewsStart(r, query) ==
    /\ Arrive(r)
    /\ LET category == QueryCategory(query)
       IN  IF Fresh(newsCache, category, now')
           THEN /\ last' = [NoResponse EXCEPT !.op = "news", !.status = 200,
                               !.query = query, !.category = category,
                               !.data = newsCache[category].data,
                               !.cacheBefore = newsCache]
                /\ UNCHANGED reqs
           ELSE /\ reqs' = [reqs EXCEPT ![r] =
                               [Idle EXCEPT !.pc = "news", !.category = category]]
                /\ last' = NoResponse
    /\ UNCHANGED <<users, portfolios, variant, market, newsCache, pages, liquidated>>

\* the fetch resolves: not OK is answered 502, a throw of fetch or of r.json() 500,
\* a payload is stored under the category with the time of now and answered
NewsFinish(r) ==
    /\ reqs[r].pc = "news"
    /\ \E outcome \in {"ok", "not ok", "threw"} :
          LET category == reqs[r].category
              j == Articles(category, now)
              answer == [NoResponse EXCEPT !.op = "news", !.category = category,
                            !.quoted = TRUE, !.upstreamFailed = (outcome # "ok"),
                            !.cacheBefore = newsCache]
          IN  CASE outcome = "not ok" ->
                      /\ last' = [answer EXCEPT !.status = 502,
                                     !.error = "news fetch failed"]
                      /\ UNCHANGED newsCache
                [] outcome = "threw" ->
                      /\ last' = [answer EXCEPT !.status = 500,
                                     !.error = "news fetch failed"]
                      /\ UNCHANGED newsCache
                [] OTHER ->
                      /\ newsCache' = [newsCache EXCEPT ![category] = Entry(now, j)]
                      /\ last' = [answer EXCEPT !.status = 200, !.data = j]
    /\ reqs' = [reqs EXCEPT ![r] = Idle]
    /\ UNCHANGED <<users, portfolios, now, variant, market, nreq, liquidated, pages>>

\* time passes between two steps of the server
Elapse(ms) ==
    /\ now + ms <= MaxElapsed
    /\ now' = now + ms
    /\ last' = NoResponse
    /\ UNCHANGED <<users, portfolios, reqs, variant, market, nreq, liquidated,
                   newsCache, pages>>

NewsQueries ==
    { BodyUndefined, BodyString(<<>>), BodyString(CategoryGeneral),
      BodyString(CategoryForex) }

\* half a TTL, and one millisecond less: an arrival takes the millisecond
Delays == { NEWS_CACHE_TTL \div 2, NEWS_CACHE_TTL \div 2 - 1 }

NewsInit ==
    /\ variant = "v2"
    /\ market = EquityMarket
    /\ users = <<>>
    /\ portfolios = <<>>
    /\ now = 0
    /\ reqs = [r \in Slots |-> Idle]
    /\ last = NoResponse
    /\ nreq = 0
    /\ liquidated = {}
    /\ newsCache = NoNews
    /\ PagesClosed

NewsNext ==
    \/ \E r \in Slots, query \in NewsQueries : NewsStart(r, query)
    \/ \E r \in Slots : NewsFinish(r)
    \/ \E ms \in Delays : Elapse(ms)

NewsSpec == NewsInit /\ [][NewsNext]_vars

----------------------------------------------------------------------------
(* verifyUserBody on requests that carry a header and legacy credentials *)

BobRegistered ==
    UserDoc(EmailBob, hashPassword(PasswordBob), Bob, Bob)

\* a username nobody registered
Carl == <<"c", "a", "r", "l">>

\* headers 'bearer <token>', 'BEARER <token>', 'Bearer <token>' with a token that
\* does not verify, one without username, one of an unknown user and one of Bob,
\* each with the valid username and password of Ann; then the same valid
\* credentials under a header 'Basic ..' and under 'Bearer<token>', which do not
\* start with 'bearer '; then no header and a wrong password
HeaderCredentials ==
    { Credentials(<<"b", "e", "a", "r", "e", "r", " ">>, NoToken, Ann, PasswordAnn),
      Credentials(<<"B", "E", "A", "R", "E", "R", " ">>, Token(<<>>), Ann, PasswordAnn),
      Credentials(<<"B", "e", "a", "r", "e", "r", " ">>, Token(Carl), Ann, PasswordAnn),
      Credentials(<<"b", "e", "a", "r", "e", "r", " ">>, Token(Bob), Ann, PasswordAnn),
      Credentials(<<"B", "a", "s", "i", "c", " ">>, Token(Bob), Ann, PasswordAnn),
      Credentials(<<"B", "e", "a", "r", "e", "r">>, Token(Bob), Ann, PasswordAnn),
      Credentials(<<>>, NoToken, Ann, PasswordBob) }

\* the server with the accounts of Ann and Bob and their empty portfolios
HeaderInit ==
    /\ variant \in Variants
    /\ market = EquityMarket
    /\ users = <<AnnRegistered, BobRegistered>>
    /\ portfolios = <<PortfolioDoc(Ann, <<>>), PortfolioDoc(Bob, <<>>)>>
    /\ now = 0
    /\ reqs = [r \in Slots |-> Idle]
    /\ last = NoResponse
    /\ nreq = 0
    /\ liquidated = {}
    /\ newsCache = NoNews
    /\ PagesClosed

HeaderNext ==
    \/ \E r \in Slots, cred \in HeaderCredentials, in \in TradeBodies :
          BuyStart(r, cred, in[1], in[2])
    \/ \E r \in Slots : BuyFinish(r)
    \/ \E r \in Slots, cred \in HeaderCredentials, in \in TradeBodies :
          SellStart(r, cred, in[1], in[2])
    \/ \E r \in Slots : SellFinish(r)
    \/ \E r \in Slots, cred \in HeaderCredentials : AllStart(r, cred)
    \/ \E r \in Slots : AllFinish(r)

HeaderSpec == HeaderInit /\ [][HeaderNext]_vars

----------------------------------------------------------------------------
(* The trade routes one request at a time *)

\* no handler is between two of its awaits
Quiet == \A r \in Slots : reqs[r].pc = "idle"

\* a request is sent only when the one before it has been answered
SequentialNext ==
    \/ \E r \in Slots, in \in BuyInputs :
          Quiet /\ BuyStart(r, AnnCredentials, in[1], in[2])
    \/ \E r \in Slots : BuyFinish(r)
    \/ \E r \in Slots, in \in SellInputs :
          Quiet /\ SellStart(r, AnnCredentials, in[1], in[2])
    \/ \E r \in Slots : SellFinish(r)
    \/ \E r \in Slots : Quiet /\ AllStart(r, AnnCredentials)
    \/ \E r \in Slots : AllFinish(r)

SequentialSpec == Init /\ [][SequentialNext]_vars

----------------------------------------------------------------------------
(* The trade routes on the bodies a client can send *)

\* bodies the schema refuses: quantity missing, not a number, zero, negative;
\* symbol missing, empty
RefusedBodies ==
    { <<BodyString(<<"x">>), BodyUndefined>>,
      <<BodyString(<<"x">>), BodyString(<<"a", "b", "c">>)>>,
      <<BodyString(<<"x">>), BodyNumber(0)>>,
      <<BodyString(<<"x">>), BodyNumber(-5)>>,
      <<BodyUndefined, BodyNumber(5)>>,
      <<BodyString(<<>>), BodyNumber(5)>> }

\* bodies it accepts: a number, and a string that converts to one
AcceptedBodies ==
    { <<BodyString(<<"x">>), BodyNumber(5)>>,
      <<BodyString(<<"x">>), BodyString(<<"1", "5">>)>> }

ValidationNext ==
    \/ \E r \in Slots, in \in RefusedBodies \cup AcceptedBodies :
          BuyStart(r, AnnCredentials, in[1], in[2])
    \/ \E r \in Slots : BuyFinish(r)
    \/ \E r \in Slots, in \in RefusedBodies \cup AcceptedBodies :
          SellStart(r, AnnCredentials, in[1], in[2])
    \/ \E r \in Slots : SellFinish(r)

ValidationSpec == Init /\ [][ValidationNext]_vars

TypeOK ==
    /\ now \in 0..(MaxElapsed + MaxRequests)
    /\ nreq \in 0..MaxRequests
    /\ variant \in Variants
    /\ market \in Markets \cup {AppleMarket}
    /\ \A r \in Slots : reqs[r].pc \in {"idle", "buy", "sell", "all",
                                        "register", "portfolio", "news"}

----------------------------------------------------------------------------
(* Properties *)

\* the fields of a holding that the program stores
Stored(h) ==
    [symbol |-> h.symbol, quantity |-> h.quantity, buyPrice |-> h.buyPrice,
     currentPrice |-> h.currentPrice, addedAt |-> h.addedAt]

StoredAll(holdings) == [i \in 1..Len(holdings) |-> Stored(holdings[i])]

\* positions of the holdings of a symbol
Positions(holdings, symbol) ==
    { i \in 1..Len(holdings) : holdings[i].symbol = symbol }

\* the integer nearest to num / den (den > 0), a tie going away from zero
Nearest(num, den) ==
    CHOOSE n \in { -((-num) \div den) - 1, -((-num) \div den), num \div den, num \div den + 1 } :
        /\ 2 * Abs(n * den - num) <= den
        /\ \A m \in { n - 1, n + 1 } :
              2 * Abs(m * den - num) = den => Abs(m) < Abs(n)

TradeOk(op) == last.op = op /\ last.status = 200

\* C1: every holding of the persisted portfolio, and of every portfolio returned or
\* held by a request, has quantity > 0: a holding sold completely is removed, not
\* kept at quantity zero
C1_QuantityPositive ==
    /\ \A i \in 1..Len(portfolio) : portfolio[i].quantity > 0
    /\ \A i \in 1..Len(last.portfolio) : last.portfolio[i].quantity > 0
    /\ \A r \in Slots : \A i \in 1..Len(reqs[r].p) : reqs[r].p[i].quantity > 0

\* a sell of exactly the held quantity has just been saved
C1_Witness ==
    /\ TradeOk("sell")
    /\ \E i \in Positions(last.before, last.symbol) :
          last.before[i].quantity = last.quantity
    /\ Len(portfolio) > 0

\* C2: the persisted portfolio has at most one holding per symbol, symbols compared
\* after trimming and upper-casing, and stored in that form; this includes buys that
\* interleave on a symbol not yet held
C2_OneHoldingPerSymbol ==
    /\ \A i, j \in 1..Len(portfolio) :
          toUpperCase(trim(portfolio[i].symbol)) = toUpperCase(trim(portfolio[j].symbol))
             => i = j
    /\ \A i \in 1..Len(portfolio) :
          portfolio[i].symbol = toUpperCase(trim(portfolio[i].symbol))

\* a buy written as " X " has been saved on a copy that did not hold X, after an
\* interleaved request had saved a holding of X
C2_Witness ==
    /\ TradeOk("buy")
    /\ last.raw # last.symbol
    /\ Positions(last.before, last.symbol) = {}
    /\ Positions(last.dbBefore, last.symbol) # {}
    /\ Cardinality(Positions(portfolio, last.symbol)) = 1

\* C3: a successful buy of q at price p on a held symbol changes that holding to
\* quantity oldQty + q, buyPrice = (oldAvg * oldQty + p * q) / (oldQty + q) rounded
\* to 4 decimals, currentPrice = p, keeps its addedAt, and leaves the other
\* holdings as they were
C3_BuyOnHeld ==
    (TradeOk("buy") /\ Positions(last.before, last.symbol) # {}) =>
        LET i == CHOOSE k \in Positions(last.before, last.symbol) : TRUE
            old == last.before[i]
            q == last.quantity
            p == last.tradePrice
        IN  /\ Positions(last.before, last.symbol) = {i}
            /\ portfolio = last.portfolio
            /\ Len(portfolio) = Len(last.before)
            /\ Stored(portfolio[i]) =
                  [symbol |-> old.symbol,
                   quantity |-> old.quantity + q,
                   buyPrice |-> Nearest(old.buyPrice * old.quantity + p * q,
                                        old.quantity + q),
                   currentPrice |-> p,
                   addedAt |-> old.addedAt]
            /\ \A j \in 1..Len(portfolio) : j # i => portfolio[j] = last.before[j]

\* a buy on a held symbol moved its average cost while another symbol was held
C3_Witness ==
    /\ TradeOk("buy")
    /\ Len(last.before) = 2
    /\ \E i \in Positions(last.before, last.symbol) :
          /\ portfolio[i].buyPrice # last.before[i].buyPrice
          /\ portfolio[i].buyPrice # last.tradePrice
          /\ portfolio[i].addedAt < now

\* C4: a successful buy of q at price p on a symbol without a holding, whether never
\* traded or liquidated before, appends a holding with quantity q, buyPrice p,
\* currentPrice p and addedAt the time of the buy, and nothing of an earlier holding
C4_BuyOnAbsent ==
    (TradeOk("buy") /\ Positions(last.before, last.symbol) = {}) =>
        /\ portfolio = last.portfolio
        /\ Len(portfolio) = Len(last.before) + 1
        /\ \A j \in 1..Len(last.before) : portfolio[j] = last.before[j]
        /\ LET h == portfolio[Len(portfolio)]
           IN  /\ Stored(h) = [symbol |-> last.symbol, quantity |-> last.quantity,
                               buyPrice |-> last.tradePrice,
                               currentPrice |-> last.tradePrice, addedAt |-> now]
               /\ h.buys = 1 /\ h.cost = last.tradePrice * last.quantity /\ ~h.sold

\* a symbol that was liquidated has been bought again
C4_Witness ==
    /\ TradeOk("buy")
    /\ last.symbol \in liquidated
    /\ Positions(last.before, last.symbol) = {}
    /\ Positions(portfolio, last.symbol) # {}

\* C5 as claimed: after buys only, buyPrice is the weighted average of all trade
\* prices rounded to 4 decimals, whatever the number of buys
C5_ExactAverage ==
    \A i \in 1..Len(portfolio) :
        ~portfolio[i].sold =>
            portfolio[i].buyPrice = Nearest(portfolio[i].cost, portfolio[i].quantity)

\* C5 amended: after n buys and no sell, buyPrice is within (n - 1) * 0.00005 of the
\* weighted average of the trade prices: every buy after the first rounds once more
C5_BoundedDrift ==
    \A i \in 1..Len(portfolio) :
        LET h == portfolio[i]
        IN  ~h.sold =>
               2 * Abs(h.buyPrice * h.quantity - h.cost) <= (h.buys - 1) * h.quantity

\* a holding built by three buys and no sell whose buyPrice is not the weighted
\* average rounded to 4 decimals
C5_Witness ==
    \E i \in 1..Len(portfolio) :
        /\ portfolio[i].buys = 3
        /\ ~portfolio[i].sold
        /\ portfolio[i].buyPrice # Nearest(portfolio[i].cost, portfolio[i].quantity)

\* C6: a successful sell of q on a holding of quantity h removes the holding when
\* q = h, and otherwise leaves it with quantity h - q and currentPrice p; its
\* buyPrice and the other holdings are unchanged
C6_Sell ==
    TradeOk("sell") =>
        LET i == CHOOSE k \in Positions(last.before, last.symbol) : TRUE
            old == last.before[i]
        IN  /\ Positions(last.before, last.symbol) = {i}
            /\ portfolio = last.portfolio
            /\ last.quantity <= old.quantity
            /\ IF last.quantity = old.quantity
               THEN /\ Len(portfolio) = Len(last.before) - 1
                    /\ \A j \in 1..Len(portfolio) :
                          portfolio[j] = last.before[IF j < i THEN j ELSE j + 1]
               ELSE /\ Len(portfolio) = Len(last.before)
                    /\ Stored(portfolio[i]) =
                          [Stored(old) EXCEPT !.quantity = old.quantity - last.quantity,
                                              !.currentPrice = last.tradePrice]
                    /\ \A j \in 1..Len(portfolio) :
                          j # i => portfolio[j] = last.before[j]

\* the first of two holdings has been sold completely
C6_Witness ==
    /\ TradeOk("sell")
    /\ Len(last.before) = 2
    /\ last.before[1].symbol = last.symbol
    /\ last.before[1].quantity = last.quantity
    /\ Len(portfolio) = 1

\* C7: a sell of a symbol without holding is answered 404 "holding not found", a sell
\* of more than the held quantity 400 "sell quantity exceeds holding" with the held
\* quantity; neither fetches a quote nor changes the persisted portfolio, and no
\* other sell is rejected for these reasons
C7_SellRejected ==
    /\ (last.op = "sell" /\ last.status = 404) =>
          /\ last.error = "holding not found"
          /\ Positions(last.dbBefore, last.symbol) = {}
          /\ ~last.quoted
          /\ portfolio = last.dbBefore
    /\ (last.op = "sell" /\ last.status = 400 /\ last.error # "validation error") =>
          /\ last.error = "sell quantity exceeds holding"
          /\ \E i \in Positions(last.dbBefore, last.symbol) :
                /\ last.holdingQuantity = last.dbBefore[i].quantity
                /\ last.quantity > last.dbBefore[i].quantity
          /\ ~last.quoted
          /\ portfolio = last.dbBefore
    /\ \A r \in Slots : reqs[r].pc = "sell" =>
          \E i \in Positions(reqs[r].p, reqs[r].symbol) :
             reqs[r].quantity <= reqs[r].p[i].quantity

\* a sell of more than the held quantity has been rejected
C7_Witness ==
    /\ last.op = "sell"
    /\ last.status = 400
    /\ last.holdingQuantity > 0
    /\ last.quantity > last.holdingQuantity

\* C8: a successful sell of q at price p returns realizedPnl = (p - buyPrice) * q
\* rounded to 2 decimals, buyPrice being the one of the holding before the sell;
\* the value is returned only: holdings keep their five stored fields
C8_RealizedPnl ==
    /\ TradeOk("sell") =>
          \E i \in Positions(last.before, last.symbol) :
             last.realizedPnl =
                Nearest((last.tradePrice - last.before[i].buyPrice) * last.quantity,
                        PriceScale \div CentScale)
    /\ \A i \in 1..Len(portfolio) :
          DOMAIN portfolio[i] \ {"cost", "buys", "sold", "low", "high"} =
             {"symbol", "quantity", "buyPrice", "currentPrice", "addedAt"}

\* a sell at a loss, at a price other than the holding's last price
C8_Witness ==
    /\ TradeOk("sell")
    /\ last.realizedPnl < 0
    /\ \E i \in Positions(last.before, last.symbol) :
          last.before[i].currentPrice # last.before[i].buyPrice

\* the X holding of a portfolio, as <<quantity, buyPrice, currentPrice>>
XHolding(holdings) ==
    IF Positions(holdings, SymX) = {} THEN <<>>
    ELSE LET h == holdings[CHOOSE i \in Positions(holdings, SymX) : TRUE]
         IN  <<h.quantity, h.buyPrice, h.currentPrice>>

Trade(op, qty, dollars) ==
    /\ TradeOk(op)
    /\ last.symbol = SymX
    /\ last.quantity = qty
    /\ last.tradePrice = Dollars(dollars)

\* C9: the end-to-end scenario, step by step: buy 10 X at 100 on an empty portfolio
\* gives (10, 100); buy 10 at 200 gives (20, 150.0000); sell 5 at 180 returns
\* 150.00 and gives (15, 150, 180); sell 15 at 120 returns -450.00 and removes X
C9_EndToEnd ==
    /\ (Trade("buy", 10, 100) /\ last.before = <<>>) =>
          XHolding(portfolio) = <<10, Dollars(100), Dollars(100)>>
    /\ (Trade("buy", 10, 200)
          /\ XHolding(last.before) = <<10, Dollars(100), Dollars(100)>>) =>
          XHolding(portfolio) = <<20, Dollars(150), Dollars(200)>>
    /\ (Trade("sell", 5, 180)
          /\ XHolding(last.before) = <<20, Dollars(150), Dollars(200)>>) =>
          /\ last.realizedPnl = 150 * CentScale
          /\ XHolding(portfolio) = <<15, Dollars(150), Dollars(180)>>
    /\ (Trade("sell", 15, 120)
          /\ XHolding(last.before) = <<15, Dollars(150), Dollars(180)>>) =>
          /\ last.realizedPnl = -450 * CentScale
          /\ XHolding(portfolio) = <<>>

\* the last step of the scenario has been taken
C9_Witness ==
    /\ Trade("sell", 15, 120)
    /\ XHolding(last.before) = <<15, Dollars(150), Dollars(180)>>
    /\ last.realizedPnl = -450 * CentScale
    /\ portfolio = <<>>

Ledger(holdings) ==
    [i \in 1..Len(holdings) |->
        [symbol |-> holdings[i].symbol, quantity |-> holdings[i].quantity,
         buyPrice |-> holdings[i].buyPrice, addedAt |-> holdings[i].addedAt,
         cost |-> holdings[i].cost, buys |-> holdings[i].buys,
         sold |-> holdings[i].sold,
         low |-> holdings[i].low, high |-> holdings[i].high]]

\* the latest step acknowledged a trade computed on a document that another
\* acknowledged trade had replaced in the meantime
StaleTrade ==
    /\ last.op \in {"buy", "sell"}
    /\ last.status = 200
    /\ Ledger(last.dbBefore) # Ledger(last.before)

\* C11: trades are unguarded read-modify-write: a trade computed on a document that
\* another trade has replaced since it was read is still answered ok, and its save
\* overwrites the other trade: the persisted holdings are the document as read with
\* this trade alone applied
C11_LostUpdate ==
    StaleTrade =>
        /\ portfolio = last.portfolio
        /\ \A i \in 1..Len(portfolio) :
              portfolio[i].symbol # last.symbol =>
                 \E j \in 1..Len(last.before) : portfolio[i] = last.before[j]
        /\ LET old == Positions(last.before, last.symbol)
               new == Positions(portfolio, last.symbol)
               d == IF last.op = "buy" THEN last.quantity ELSE -last.quantity
           IN  /\ old = {} => \A i \in new : portfolio[i].quantity = d
               /\ \A j \in old : \A i \in new :
                     portfolio[i].quantity = last.before[j].quantity + d
               /\ \A j \in old :
                     new = {} => last.before[j].quantity + d = 0

\* two buys of X read the same document and both were answered ok; the stored
\* quantity counts the second alone
C11_Witness ==
    /\ StaleTrade
    /\ last.op = "buy"
    /\ \E j \in Positions(last.before, last.symbol) :
       \E k \in Positions(last.dbBefore, last.symbol) :
       \E i \in Positions(portfolio, last.symbol) :
          /\ last.dbBefore[k].quantity > last.before[j].quantity
          /\ portfolio[i].quantity = last.before[j].quantity + last.quantity
          /\ portfolio[i].quantity < last.dbBefore[k].quantity + last.quantity

\* C12 as claimed: a revalue answers 200; a holding whose symbol the provider failed
\* to quote keeps the currentPrice it had, every other holding takes the provider's
\* price, and the totals are those of the resulting holdings
C12_StalePriceOnFailure ==
    last.op = "all" =>
        /\ last.status = 200
        /\ Len(last.portfolio) = Len(last.before)
        /\ \A i \in 1..Len(last.portfolio) :
              last.portfolio[i].currentPrice =
                 IF last.before[i].symbol \in last.failedSymbols
                 THEN last.before[i].currentPrice
                 ELSE PriceAt(market, last.before[i].symbol, now)
        /\ last.totals = Totals(last.portfolio)

\* C12 where fetchQuote returns null on failure
C12_StaleWhenNull ==
    variant = "v2" => C12_StalePriceOnFailure

\* the latest step answered a revalue whose document nobody replaced between its
\* read and its save
RevaluedAlone ==
    /\ last.op = "all"
    /\ last.dbBefore = last.before

\* C13: a revalue that ran without interleaving changes nothing of the persisted
\* portfolio but currentPrice: the holdings, their order, quantity, buyPrice and
\* addedAt are those before the request, whatever the provider answered
C13_RevalueFrame ==
    RevaluedAlone =>
        /\ portfolio = last.portfolio
        /\ Ledger(portfolio) = Ledger(last.dbBefore)

\* a revalue of two holdings has changed one current price while the provider
\* failed for the other symbol
C13_Witness ==
    /\ RevaluedAlone
    /\ Len(portfolio) = 2
    /\ last.failedSymbols # {}
    /\ \E i \in 1..Len(portfolio) :
          portfolio[i].currentPrice # last.dbBefore[i].currentPrice

\* the prices the provider quotes at this clock are those the holdings already carry
AlreadyRevalued(holdings) ==
    \A i \in 1..Len(holdings) :
        holdings[i].currentPrice = PriceAt(market, holdings[i].symbol, now)

\* C14: a revalue whose quotes all succeed leaves every holding at the quoted price;
\* a revalue that finds the holdings at the prices it is quoted (the state a revalue
\* with the same quotes leaves when no trade follows it) changes nothing in the
\* persisted portfolio and answers the totals and holding values of that document
C14_RevalueIdempotent ==
    /\ (RevaluedAlone /\ last.failedSymbols = {}) => AlreadyRevalued(portfolio)
    /\ (RevaluedAlone /\ last.failedSymbols = {} /\ AlreadyRevalued(last.before)) =>
          /\ portfolio = last.before
          /\ last.totals = Totals(last.before)
          /\ last.holdings = [i \in 1..Len(last.before) |-> HoldingView(last.before[i])]

\* a revalue has run on a holding that was at the quoted price and at a gain, as
\* a revalue with the same quotes leaves it
C14_Witness ==
    /\ RevaluedAlone
    /\ last.failedSymbols = {}
    /\ AlreadyRevalued(last.before)
    /\ Len(last.before) > 0
    /\ last.totals.pnl > 0
    /\ portfolio = last.before

\* sums over the holdings, taken from the first holding on
RECURSIVE InvestedFromHead(_)
InvestedFromHead(holdings) ==
    IF holdings = <<>> THEN 0
    ELSE Head(holdings).buyPrice * Head(holdings).quantity
         + InvestedFromHead(Tail(holdings))

RECURSIVE CurrentFromHead(_)
CurrentFromHead(holdings) ==
    IF holdings = <<>> THEN 0
    ELSE Head(holdings).currentPrice * Head(holdings).quantity
         + CurrentFromHead(Tail(holdings))

\* round2(x / buyPrice * 100) for x in 1/10000, in 1/100 of a percent; null unless
\* buyPrice > 0
PercentOf(x, buyPrice) ==
    IF buyPrice > 0
    THEN JsNullable(FALSE, toFixedScaled(x, buyPrice, 4))
    ELSE JsNullable(TRUE, 0)

\* the totals of the reference formulas
ReferenceTotals(holdings) ==
    LET totalInvested == InvestedFromHead(holdings)
        totalCurrent == CurrentFromHead(holdings)
        pnl == Nearest(totalCurrent - totalInvested, PriceScale \div CentScale)
    IN  [totalInvested |-> totalInvested,
         totalCurrent |-> totalCurrent,
         pnl |-> pnl,
         pnlPercent |-> IF totalInvested > 0
                        THEN JsNullable(FALSE, toFixedScaled(pnl, totalInvested, 6))
                        ELSE JsNullable(TRUE, 0)]

\* C15 as claimed: the valuation a revalue returns is, per holding,
\* gain = round2(currentPrice - buyPrice) and gainPercent = round2(gain / buyPrice * 100)
\* of that rounded gain (null unless buyPrice > 0), and the reference totals
C15_Valuation ==
    last.op = "all" =>
        /\ last.totals = ReferenceTotals(last.portfolio)
        /\ Len(last.holdings) = Len(last.portfolio)
        /\ \A i \in 1..Len(last.holdings) :
              LET h == last.portfolio[i]
                  gain == Nearest(h.currentPrice - h.buyPrice, PriceScale \div CentScale)
              IN  /\ last.holdings[i].gain = gain
                  /\ last.holdings[i].gainPercent =
                        PercentOf(gain * (PriceScale \div CentScale), h.buyPrice)

\* C15 amended: as claimed, but gainPercent = round2((currentPrice - buyPrice) /
\* buyPrice * 100) is taken from the difference before it is rounded, while
\* pnlPercent is taken from the rounded pnl
C15_ValuationOfRawGain ==
    last.op = "all" =>
        /\ last.totals = ReferenceTotals(last.portfolio)
        /\ Len(last.holdings) = Len(last.portfolio)
        /\ \A i \in 1..Len(last.holdings) :
              LET h == last.portfolio[i]
              IN  /\ last.holdings[i].gain =
                        Nearest(h.currentPrice - h.buyPrice, PriceScale \div CentScale)
                  /\ last.holdings[i].gainPercent =
                        PercentOf(h.currentPrice - h.buyPrice, h.buyPrice)
                  /\ last.holdings[i].symbol = h.symbol
                  /\ last.holdings[i].quantity = h.quantity
        /\ last.portfolio = <<>> => last.totals.pnlPercent.null

\* a revalue has valued two holdings, one with a gain that is not a whole number of
\* cents and a gainPercent other than the one of the rounded gain
C15_Witness ==
    /\ last.op = "all"
    /\ Len(last.holdings) = 2
    /\ ~last.totals.pnlPercent.null
    /\ \E i \in 1..Len(last.holdings) :
          LET h == last.portfolio[i]
              gain == Nearest(h.currentPrice - h.buyPrice, PriceScale \div CentScale)
          IN  /\ (h.currentPrice - h.buyPrice) % (PriceScale \div CentScale) # 0
              /\ last.holdings[i].gainPercent #
                    PercentOf(gain * (PriceScale \div CentScale), h.buyPrice)

----------------------------------------------------------------------------
(* Validation comes first *)

\* the bodies C16 names: quantity missing, non-numeric, zero or negative, or symbol
\* missing or empty
NamedInvalid(body) ==
    LET symbol == body[1]
        quantity == body[2]
    IN  \/ quantity.type = "undefined"
        \/ quantity.type = "string" /\ DigitsValue(trim(quantity.str)) < 0
        \/ quantity.type = "number" /\ quantity.num <= 0
        \/ symbol.type = "undefined"
        \/ symbol.type = "string" /\ symbol.str = <<>>

\* C16: an authenticated Buy or Sell whose quantity is missing, non-numeric, zero
\* or negative, or whose symbol is missing or empty, is answered 400 'validation
\* error' before the ledger is touched: the portfolio is not read, no quote is
\* fetched and nothing is persisted
C16_ValidationFirst ==
    /\ (last.op \in {"buy", "sell"} /\ last.status # 401 /\ NamedInvalid(last.body)) =>
          /\ last.status = 400
          /\ last.error = "validation error"
          /\ ~last.readPortfolio
          /\ ~last.quoted
          /\ portfolios = last.portfoliosBefore
    /\ \A r \in Slots : reqs[r].pc # "idle" => ~NamedInvalid(reqs[r].body)

\* a sell with a non-numeric quantity has been refused while the portfolio held
\* the symbol and an accepted buy was waiting for its quote
C16_Witness ==
    /\ last.op = "sell" /\ last.status = 400 /\ last.error = "validation error"
    /\ last.body[2].type = "string" /\ NamedInvalid(last.body)
    /\ Positions(portfolio, SymX) # {}
    /\ \E r \in Slots : reqs[r].pc = "buy" /\ reqs[r].body[2].type = "string"

----------------------------------------------------------------------------
(* One User, one Portfolio *)

\* no handler of /users/register is between two of its awaits
NoRegistrationInFlight ==
    \A r \in Slots : reqs[r].pc \notin {"register", "portfolio"}

UniqueUsers ==
    \A i, j \in 1..Len(users) :
        (users[i].username = users[j].username \/ users[i].email = users[j].email)
            => i = j

PortfoliosOf(username) ==
    {j \in 1..Len(portfolios) : portfolios[j].userUsername = username}

\* the email or the username of a registration is that of a stored User
Taken(docs, body) ==
    \E i \in 1..Len(docs) :
        docs[i].email = body.email.str \/ docs[i].username = body.username.str

\* C17: after any sequence of registrations, interleaved ones on the same username
\* or email included, usernames and emails are unique, every User has exactly one
\* Portfolio of its username, created with empty holdings together with the User,
\* and a registration whose email or username already exists is answered 409 and
\* creates neither a User nor a Portfolio
C17_Registration ==
    /\ UniqueUsers
    /\ NoRegistrationInFlight =>
          \A i \in 1..Len(users) : Cardinality(PortfoliosOf(users[i].username)) = 1
    /\ (last.op = "register" /\ last.status = 200) =>
          /\ last.created
          /\ HoldingsOf(portfolios, last.user) = <<>>
          /\ Len(portfolios) = Len(last.portfoliosBefore) + 1
    /\ (last.op = "register" /\ ~registerSchema(last.register) /\ ~last.created
           /\ Taken(last.usersBefore, last.register)) =>
          /\ last.status = 409
          /\ users = last.usersBefore
          /\ portfolios = last.portfoliosBefore

\* the part of C17 that holds of every registration: usernames and emails are
\* unique, no username has two Portfolios, every Portfolio is that of a User, a
\* registration that is answered 200 has created its User and an empty Portfolio
\* of its username, and one that did not create a User has created no Portfolio
C17_UniqueAccounts ==
    /\ UniqueUsers
    /\ \A i \in 1..Len(users) : Cardinality(PortfoliosOf(users[i].username)) <= 1
    /\ \A j \in 1..Len(portfolios) : findUser(users, portfolios[j].userUsername) # 0
    /\ (last.op = "register" /\ last.status = 200) =>
          /\ last.created
          /\ HoldingsOf(portfolios, last.user) = <<>>
          /\ Len(portfolios) = Len(last.portfoliosBefore) + 1
    /\ (last.op = "register" /\ ~last.created) =>
          /\ users = last.usersBefore
          /\ portfolios = last.portfoliosBefore

----------------------------------------------------------------------------
(* Roles *)

\* the roles of the stored Users are those of the same Users one step earlier
RolesKept ==
    /\ Len(users') >= Len(users)
    /\ \A i \in 1..Len(users) :
          /\ users'[i].username = users[i].username
          /\ users'[i].roles = users[i].roles

\* C18: a user created through /users/register has roles exactly ['user'], a
\* registration body with a 'roles' field is refused (400) and creates nothing, the
\* answer of a registration and of a login carries ['user'], and no step of
\* register, login, buy, sell or revalue changes the roles of an existing user
C18_RolesOnlyUser ==
    /\ [](/\ \A i \in 1..Len(users) : users[i].roles = <<"user">>
          /\ (last.op \in {"register", "login"} /\ last.status = 200) =>
                last.roles = <<"user">>
          /\ (last.op = "register" /\ last.register.roles.type # "undefined") =>
                /\ last.status = 400
                /\ users = last.usersBefore
                /\ portfolios = last.portfoliosBefore)
    /\ [][RolesKept]_vars

\* a registration that asks for the admin role has been refused after Bob had
\* registered and while a second registration was in flight
C18_Witness ==
    /\ last.op = "register" /\ last.status = 400
    /\ last.register.roles = BodyArray(<<"admin">>)
    /\ Len(users) = 2
    /\ \E r \in Slots : reqs[r].pc = "register"

----------------------------------------------------------------------------
(* Each request on the portfolio of its own user *)

TradeOps == {"buy", "sell", "all"}

\* the credentials are those of username: a token issued to it, or its username
\* and its password
Proves(cred, username) ==
    IF cred.bearer
    THEN cred.token.verified /\ cred.token.username = username
    ELSE /\ trim(cred.username) = username
         /\ \E i \in 1..Len(users) :
               /\ users[i].username = username
               /\ users[i].passwordHash = hashPassword(trim(cred.password))

\* a step reads, writes and returns holdings only through a request that proved to
\* be their owner
OwnPortfolioStep ==
    /\ \A r \in Slots :
          (reqs[r].pc = "idle" /\ reqs'[r].pc \in TradeOps) =>
             /\ Proves(reqs'[r].cred, reqs'[r].user)
             /\ reqs'[r].p = HoldingsOf(portfolios, reqs'[r].user)
             /\ portfolios' = portfolios
    /\ \A u \in {Ann, Bob} :
          HoldingsOf(portfolios', u) # HoldingsOf(portfolios, u) =>
             \E r \in Slots :
                /\ reqs[r].pc \in TradeOps /\ reqs'[r].pc = "idle"
                /\ reqs[r].user = u
                /\ last'.user = u /\ last'.cred = reqs[r].cred
                /\ last'.before = reqs[r].p
    /\ (last'.op \in TradeOps /\ last'.status = 401) =>
          /\ portfolios' = portfolios
          /\ reqs' = reqs

\* C19: a /portfolio request reads and writes only the Portfolio of the username its
\* credentials prove; what it returns is computed from that document; a request
\* that fails authentication is answered 401, returns no holdings and changes no
\* portfolio
C19_OwnPortfolioOnly ==
    /\ [](last.op \in TradeOps =>
             /\ last.status = 401 <=> ~\E i \in 1..Len(last.usersBefore) :
                                         Proves(last.cred, last.usersBefore[i].username)
             /\ last.status = 401 =>
                   /\ last.user = <<>> /\ ~last.readPortfolio
                   /\ last.portfolio = <<>> /\ last.holdings = <<>>
                   /\ portfolios = last.portfoliosBefore
             /\ last.status # 401 => Proves(last.cred, last.user))
    /\ [][OwnPortfolioStep]_vars

\* a buy of Bob has been saved while Ann holds a position of her own
C19_Witness ==
    /\ last.op = "buy" /\ last.status = 200 /\ last.user = Bob
    /\ HoldingsOf(portfolios, Bob) # <<>>
    /\ HoldingsOf(portfolios, Ann) # <<>>
    /\ HoldingsOf(portfolios, Ann) # HoldingsOf(portfolios, Bob)

----------------------------------------------------------------------------
(* The AAPL quote *)

\* the answer carries a price of AAPL that the provider delivered to this request
ReturnsProviderPriceOfAAPL ==
    \/ /\ last.op = "quote" /\ last.status = 200
       /\ last.symbol = SymAAPL
    \/ /\ last.op \in {"buy", "sell"} /\ last.status = 200
       /\ last.symbol = SymAAPL /\ ~last.upstreamFailed
       /\ last.tradePrice = PriceAt(market, SymAAPL, now)
    \/ /\ last.op = "all" /\ last.status = 200
       /\ \E i \in 1..Len(last.holdings) :
             /\ last.holdings[i].symbol = SymAAPL
             /\ SymAAPL \notin last.failedSymbols
             /\ last.holdings[i].currentPrice = PriceAt(market, SymAAPL, now)

\* C20: a request of GET /stocks/quote whose symbol normalizes to 'AAPL' is answered
\* 404 without a call of the provider, and no request of the API, trades and
\* revalues of AAPL included, returns a price of AAPL that came from the provider
C20_NoAaplPrice ==
    /\ (last.op = "quote" /\ last.symbol = SymAAPL) =>
          last.status = 404 /\ ~last.quoted
    /\ ~ReturnsProviderPriceOfAAPL

\* C20, the route itself: GET /stocks/quote answers 404 for every way of writing
\* AAPL and calls the provider for none of them
C20_QuoteRouteBlocked ==
    (last.op = "quote" /\ last.query.type = "string"
        /\ toUpperCase(trim(last.query.str)) = SymAAPL) =>
       /\ last.status = 404
       /\ last.error = "quote unavailable for symbol"
       /\ ~last.quoted
       /\ last.currentPrice = 0

----------------------------------------------------------------------------
(* The news cache *)

\* the age at time t of the entry of a category
AgeOf(cache, category, t) == t - cache[category].ts

\* one step on the cache: a request is answered from it exactly when the entry of
\* its category is younger than the TTL, else its handler fetches; an entry is
\* written only by the successful fetch of its own category, with the time of the
\* write; a failed fetch is answered 502 or 500 and writes nothing
NewsStep ==
    /\ \A r \in Slots :
          (reqs[r].pc = "idle" /\ reqs'[r].pc = "news") =>
             /\ \/ ~newsCache[reqs'[r].category].cached
                \/ AgeOf(newsCache, reqs'[r].category, now') >= NEWS_CACHE_TTL
             /\ newsCache' = newsCache
    /\ (last'.op = "news" /\ ~last'.quoted) =>
          /\ last'.status = 200
          /\ newsCache[last'.category].cached
          /\ AgeOf(newsCache, last'.category, now') < NEWS_CACHE_TTL
          /\ last'.data = newsCache[last'.category].data
          /\ newsCache' = newsCache
          /\ reqs' = reqs
    /\ (last'.op = "news" /\ last'.quoted /\ last'.status # 200) =>
          /\ last'.status \in {500, 502}
          /\ newsCache' = newsCache
    /\ \A c \in Categories :
          newsCache'[c] # newsCache[c] =>
             /\ last'.op = "news" /\ last'.status = 200 /\ last'.quoted
             /\ last'.category = c
             /\ newsCache'[c] = Entry(now', last'.data)

\* C21: GET /news answers from the cache, without a call of the provider, exactly
\* when the category has an entry younger than 60 s; otherwise it fetches, and only
\* a successful fetch stores or replaces the entry of that category, with the
\* current time; a failed fetch answers 502 or 500 and leaves the map as it was; a
\* payload older than the TTL is never served and the entries of the other
\* categories are never touched
C21_NewsCache ==
    /\ []((last.op = "news" /\ last.status = 200) =>
             \A i \in 1..Len(last.data) :
                /\ last.data[i].category = last.category
                /\ now - last.data[i].datetime < NEWS_CACHE_TTL)
    /\ [][NewsStep]_vars

\* a request has been answered from an entry that is one millisecond short of the
\* TTL, while the entry of the other category is older than the TTL
C21_Witness ==
    /\ last.op = "news" /\ last.status = 200 /\ ~last.quoted
    /\ AgeOf(newsCache, last.category, now) = NEWS_CACHE_TTL - 1
    /\ \E c \in Categories :
          /\ c # last.category
          /\ newsCache[c].cached
          /\ AgeOf(newsCache, c, now) > NEWS_CACHE_TTL

----------------------------------------------------------------------------
(* The bearer header comes first *)

\* the spellings of the scheme that start with 'bearer ' whatever the case
BearerSchemes ==
    { <<"b", "e", "a", "r", "e", "r", " ">>,
      <<"B", "e", "a", "r", "e", "r", " ">>,
      <<"B", "E", "A", "R", "E", "R", " ">> }

\* the token verifies, carries a username, and that username is a stored User
TokenAccepted(token, docs) ==
    /\ token.verified
    /\ token.username # <<>>
    /\ \E i \in 1..Len(docs) : docs[i].username = token.username

\* the legacy username and password are those of a stored User
PasswordAccepted(cred, docs) ==
    \E i \in 1..Len(docs) :
        /\ docs[i].username = trim(cred.username)
        /\ docs[i].passwordHash = hashPassword(trim(cred.password))

\* C22: a request whose Authorization header starts with 'bearer ', in any case, is
\* decided on its token alone: a token that does not verify, has no username or
\* names no stored user is answered 401 and no handler runs, even with valid
\* legacy credentials, and an accepted token makes the request that of the token's
\* user; the username and password are consulted only without such a header
C22_BearerFirst ==
    /\ (last.op \in TradeOps /\ last.cred.scheme \in BearerSchemes) =>
          IF TokenAccepted(last.cred.token, last.usersBefore)
          THEN last.status # 401 /\ last.user = last.cred.token.username
          ELSE /\ last.status = 401
               /\ last.error \in {"invalid token", "invalid token user"}
               /\ ~last.readPortfolio /\ ~last.quoted
               /\ portfolios = last.portfoliosBefore
    /\ (last.op \in TradeOps /\ last.cred.scheme \notin BearerSchemes) =>
          IF PasswordAccepted(last.cred, last.usersBefore)
          THEN last.status # 401 /\ last.user = trim(last.cred.username)
          ELSE last.status = 401
    /\ \A r \in Slots :
          reqs[r].pc \in TradeOps =>
             IF reqs[r].cred.scheme \in BearerSchemes
             THEN /\ TokenAccepted(reqs[r].cred.token, users)
                  /\ reqs[r].user = reqs[r].cred.token.username
             ELSE /\ PasswordAccepted(reqs[r].cred, users)
                  /\ reqs[r].user = trim(reqs[r].cred.username)

\* a request with a lower-case bearer header, a token that does not verify and the
\* valid password of Ann has been refused while a request with the token of Bob
\* and the same password is served as Bob
C22_Witness ==
    /\ last.op \in TradeOps /\ last.status = 401
    /\ last.cred.scheme = <<"b", "e", "a", "r", "e", "r", " ">>
    /\ ~last.cred.token.verified
    /\ PasswordAccepted(last.cred, users)
    /\ \E r \in Slots :
          /\ reqs[r].pc \in TradeOps /\ reqs[r].user = Bob
          /\ trim(reqs[r].cred.username) = Ann

----------------------------------------------------------------------------
(* Quantities add up *)

RECURSIVE QuantityFromHead(_, _)
QuantityFromHead(holdings, symbol) ==
    IF holdings = <<>> THEN 0
    ELSE (IF Head(holdings).symbol = symbol THEN Head(holdings).quantity ELSE 0)
         + QuantityFromHead(Tail(holdings), symbol)

\* the quantity held of a symbol, 0 when there is no holding
HeldQuantity(holdings, symbol) == QuantityFromHead(holdings, symbol)

\* what an answer acknowledges for a symbol: the quantity bought, minus the
\* quantity sold
Acknowledged(answer, symbol) ==
    IF answer.status = 200 /\ answer.symbol = symbol
    THEN IF answer.op = "buy" THEN answer.quantity
         ELSE IF answer.op = "sell" THEN -answer.quantity
         ELSE 0
    ELSE 0

\* one step moves the held quantity of each symbol by what it acknowledges
QuantityStep ==
    \A s \in Symbols :
        HeldQuantity(portfolio', s) = HeldQuantity(portfolio, s) + Acknowledged(last', s)

\* C23: with trade requests one at a time, the held quantity of every symbol (0
\* without a holding) is the total of the acknowledged Buys minus the total of the
\* acknowledged Sells: every step changes it by exactly what the step acknowledges,
\* starting from what the first Buys left; so it is never negative, that is, what
\* was sold never exceeds what was bought
C23_QuantityLedger ==
    /\ [](\A s \in Symbols : HeldQuantity(portfolio, s) >= 0)
    /\ [][QuantityStep]_vars

\* a sell of 15 X has been acknowledged as the last of the requests and leaves 5 X
C23_Witness ==
    /\ last.op = "sell" /\ last.status = 200
    /\ last.symbol = SymX /\ last.quantity = 15
    /\ HeldQuantity(portfolio, SymX) = 5
    /\ nreq = MaxRequests

----------------------------------------------------------------------------
(* C24: the bounds of the average buy price *)

Least(a, b) == IF a < b THEN a ELSE b
Greatest(a, b) == IF a > b THEN a ELSE b

\* C24: trade prices are positive with at most 4 decimals; then the buyPrice of every
\* holding is > 0, a Buy at price p on a holding with average oldAvg leaves
\* min(oldAvg, p) <= buyPrice <= max(oldAvg, p), a Buy that opens a holding leaves
\* buyPrice = p, and so buyPrice lies between the lowest and the highest trade price
\* of the buys made since the holding was opened
C24_BuyPriceBounds ==
    /\ \A d \in 1..Len(portfolios) : \A i \in 1..Len(portfolios[d].holdings) :
          LET h == portfolios[d].holdings[i]
          IN  /\ h.buyPrice > 0
              /\ h.low <= h.buyPrice
              /\ h.buyPrice <= h.high
    /\ \A r \in Slots : \A i \in 1..Len(reqs[r].p) :
          /\ reqs[r].p[i].buyPrice > 0
          /\ reqs[r].p[i].low <= reqs[r].p[i].buyPrice
          /\ reqs[r].p[i].buyPrice <= reqs[r].p[i].high
    /\ TradeOk("buy") =>
          /\ last.tradePrice > 0
          /\ \A i \in 1..Len(last.portfolio) :
                /\ last.portfolio[i].buyPrice > 0
                /\ last.portfolio[i].low <= last.portfolio[i].buyPrice
                /\ last.portfolio[i].buyPrice <= last.portfolio[i].high
          /\ IF Positions(last.before, last.symbol) = {}
             THEN last.portfolio[Len(last.portfolio)].buyPrice = last.tradePrice
             ELSE \A i \in Positions(last.before, last.symbol) :
                     /\ Least(last.before[i].buyPrice, last.tradePrice)
                           <= last.portfolio[i].buyPrice
                     /\ last.portfolio[i].buyPrice
                           <= Greatest(last.before[i].buyPrice, last.tradePrice)

\* a buy at a price above the average has left an average strictly between the two,
\* which is not the exact weighted average but its rounding to 4 decimals
C24_Witness ==
    /\ TradeOk("buy")
    /\ \E i \in Positions(last.before, last.symbol) :
          LET old == last.before[i]
              new == last.portfolio[i]
          IN  /\ old.buyPrice < new.buyPrice
              /\ new.buyPrice < last.tradePrice
              /\ new.buyPrice * new.quantity #
                    old.buyPrice * old.quantity + last.tradePrice * last.quantity
              /\ new.low < new.buyPrice
              /\ new.buyPrice < new.high

----------------------------------------------------------------------------
(* C25: a revalue that overlaps a trade *)

\* the held symbols with the quantity and buyPrice of each, in stored order
TradeFields(holdings) ==
    [i \in 1..Len(holdings) |->
        [symbol |-> holdings[i].symbol, quantity |-> holdings[i].quantity,
         buyPrice |-> holdings[i].buyPrice]]

\* C25 as claimed: a revalue, also one that read the document before a trade
\* replaced it and saves after that trade, leaves the held symbols and every
\* holding's quantity and buyPrice as the stored document had them before its save
C25_RevalueKeepsTrade ==
    (last.op = "all" /\ last.status = 200) =>
        TradeFields(portfolio) = TradeFields(last.dbBefore)

\* what the code does instead: the revalue saves the document as it read it, with
\* the quoted prices, whatever has been stored since
C25_RevalueOverwrites ==
    (last.op = "all" /\ last.status = 200) =>
        /\ TradeFields(portfolio) = TradeFields(last.before)
        /\ portfolio = last.portfolio

----------------------------------------------------------------------------
(* TradePage.tsx: the quote effect and executeTrade *)

\* the most loadQuote calls followed while they await their response
MaxInFlight == 2

\* the prices /stocks/quote answers for a symbol; those of X and of Y differ
QuotePrices(symbol) ==
    IF symbol = SymX THEN {Dollars(100), Dollars(110)} ELSE {Dollars(200)}

\* the values typed into the quantity input: '', '5'
Quantities == {0, 5}

\* the server as far as the pages of the client are concerned: not looked at
ServerAside ==
    /\ variant = "v2"
    /\ market = EquityMarket
    /\ users = <<>>
    /\ portfolios = <<>>
    /\ now = 0
    /\ reqs = [r \in Slots |-> Idle]
    /\ last = NoResponse
    /\ nreq = 0
    /\ liquidated = {}
    /\ newsCache = NoNews

\* a call of loadQuote waiting at line 48, with the `mounted` of its closure
QuoteFetch(symbol) == [symbol |-> symbol, mounted |-> TRUE]

\* faulty alternative: the cleanup clears the interval and leaves `mounted` true
cleanupIntervalOnly(page) == [page EXCEPT !.interval = NoInterval]

\* lines 66-69: mounted = false for the closures of this effect, clearInterval
cleanup(page) ==
    [page EXCEPT !.fetches = [i \in 1..Len(page.fetches) |->
                                 [page.fetches[i] EXCEPT !.mounted = FALSE]],
                 !.interval = NoInterval]

\* lines 45-48: loadQuote up to its await
loadQuote(page, symbol) ==
    [page EXCEPT !.loadingQuote = TRUE,
                 !.fetches = Append(page.fetches, QuoteFetch(symbol))]

\* lines 38-65: the body of the quote effect for the rendered selectedStock
quoteEffect(page) ==
    IF page.selectedStock = NoStock
    THEN [page EXCEPT !.quote = NoQuote]
    ELSE [loadQuote(page, page.selectedStock.symbol)
             EXCEPT !.interval = Interval(page.selectedStock.symbol)]

\* setSelectedStock(stock) and the render it causes: the quote effect has the
\* dependency selectedStock?.symbol (line 70), so its cleanup and body run when the
\* symbol differs from the rendered one
setSelectedStock(page, stock) ==
    LET next == [page EXCEPT !.selectedStock = stock]
    IN  IF stock.symbol = page.selectedStock.symbol THEN next
        ELSE quoteEffect(cleanup(next))

\* lines 49-60: loadQuote after its await, for the answer `price` (0: fetchQuote threw)
quoteAnswered(page, fetch, price) ==
    IF ~fetch.mounted THEN page
    ELSE IF price = 0
    THEN [page EXCEPT !.quote = NoQuote, !.loadingQuote = FALSE]
    ELSE [page EXCEPT !.quote = StockQuote(fetch.symbol, price),
                      !.selectedStock =
                          IF page.selectedStock = NoStock THEN NoStock
                          ELSE [page.selectedStock EXCEPT !.price = price],
                      !.loadingQuote = FALSE]

\* the sequence without its i-th element
Without(seq, i) == SubSeq(seq, 1, i - 1) \o SubSeq(seq, i + 1, Len(seq))

\* the page as mounted with the prop initialStock (lines 27-29)
OpenTradePage(initialStock) ==
    setSelectedStock([NoTradePage EXCEPT !.mounted = TRUE], initialStock)

\* a card of StockSearch is clicked: onSelect={setSelectedStock} (line 134,
\* stock-search.tsx 80); the cards stay clickable while a trade is loading
SelectStock(symbol) ==
    /\ tradePage.mounted
    /\ symbol = tradePage.selectedStock.symbol \/ Len(tradePage.fetches) < MaxInFlight
    /\ tradePage' = setSelectedStock(tradePage, Stock(symbol))
    /\ UNCHANGED <<server, app, newsList>>

\* the response of /stocks/quote reaches the loadQuote that awaits it
QuoteResolve(i) ==
    /\ i \in 1..Len(tradePage.fetches)
    /\ \E price \in QuotePrices(tradePage.fetches[i].symbol) \cup {0} :
          LET fetch == tradePage.fetches[i]
              page == quoteAnswered(tradePage, fetch, price)
          IN  tradePage' =
                 [page EXCEPT !.fetches = Without(tradePage.fetches, i),
                              !.quoteSeen = [symbol |-> fetch.symbol,
                                             applied |-> fetch.mounted]]
    /\ UNCHANGED <<server, app, newsList>>

\* time passes on the page; the timer fires before more than its period has passed
Wait(ms) ==
    /\ tradePage.interval.active
    /\ tradePage.interval.since + ms <= QUOTE_INTERVAL
    /\ tradePage' = [tradePage EXCEPT !.interval.since = @ + ms]
    /\ UNCHANGED <<server, app, newsList>>

\* setInterval(loadQuote, 10000) fires (line 65)
IntervalFire ==
    /\ tradePage.interval.active
    /\ tradePage.interval.since = QUOTE_INTERVAL
    /\ Len(tradePage.fetches) < MaxInFlight
    /\ tradePage' = [loadQuote(tradePage, tradePage.interval.symbol)
                        EXCEPT !.interval.since = 0]
    /\ UNCHANGED <<server, app, newsList>>

\* the quantity input (lines 161-171), disabled while loading
SetQuantity(value) ==
    /\ tradePage.mounted
    /\ tradePage.selectedStock # NoStock
    /\ ~tradePage.loading
    /\ tradePage' = [tradePage EXCEPT !.quantity = value]
    /\ UNCHANGED <<server, app, newsList>>

\* faulty alternative: loading is not set
executeTradeStartQuiet(page, which) ==
    [page EXCEPT !.side = which, !.confirm = NoConfirm,
                 !.trade = [pc |-> "trading", which |-> which,
                            symbol |-> page.selectedStock.symbol,
                            quantity |-> page.quantity]]

\* setSide and lines 92-104: executeTrade up to the await of portfolioBuy/Sell
executeTradeStart(page, which) ==
    [page EXCEPT !.side = which, !.loading = TRUE, !.confirm = NoConfirm,
                 !.trade = [pc |-> "trading", which |-> which,
                            symbol |-> page.selectedStock.symbol,
                            quantity |-> page.quantity]]

\* the Buy or Sell button (lines 177-190) is clicked; both are rendered for a
\* selected stock and disabled while loading or without a quantity > 0
TradeClick(which) ==
    /\ tradePage.mounted
    /\ tradePage.selectedStock # NoStock
    /\ ~(tradePage.loading \/ tradePage.quantity = 0 \/ tradePage.quantity <= 0)
    /\ tradePage' = executeTradeStart(tradePage, which)
    /\ UNCHANGED <<server, app, newsList>>

\* lines 105-108 and 113-117: portfolioBuy/Sell answers; state is set only on a
\* mounted component
TradeResolve(ok) ==
    /\ tradePage.trade.pc = "trading"
    /\ tradePage' =
          IF ok
          THEN [tradePage EXCEPT !.trade.pc = "refreshing",
                   !.confirm = IF tradePage.mounted THEN Confirm(TRUE) ELSE @]
          ELSE [tradePage EXCEPT !.trade = NoTrade,
                   !.confirm = IF tradePage.mounted THEN Confirm(FALSE) ELSE @,
                   !.loading = IF tradePage.mounted THEN FALSE ELSE @,
                   !.tradeSeen = [outcome |-> "failed", refreshed |-> FALSE,
                                  reset |-> FALSE]]
    /\ UNCHANGED <<server, app, newsList>>

\* lines 109-112 and 115-117: refreshPortfolio (loadPortfolioFromApi, which catches
\* its own errors) has resolved; the form is reset
RefreshResolve ==
    /\ tradePage.trade.pc = "refreshing"
    /\ LET page == IF tradePage.mounted
                   THEN [setSelectedStock(tradePage, NoStock)
                            EXCEPT !.quantity = 0, !.loading = FALSE]
                   ELSE tradePage
       IN  tradePage' = [page EXCEPT !.trade = NoTrade,
                            !.tradeSeen = [outcome |-> "ok", refreshed |-> TRUE,
                                           reset |-> tradePage.mounted]]
    /\ UNCHANGED <<server, app, newsList>>

\* another tab is chosen: TabsContent unmounts the page and the cleanup runs
UnmountTradePage ==
    /\ tradePage.mounted
    /\ tradePage' = [cleanup(tradePage) EXCEPT !.mounted = FALSE]
    /\ UNCHANGED <<server, app, newsList>>

TradeInit ==
    /\ ServerAside
    /\ \E initialStock \in {NoStock, Stock(SymX)} :
          tradePage = OpenTradePage(initialStock)
    /\ app = NoApp
    /\ newsList = NoNewsList

PollDelays == {QUOTE_INTERVAL \div 2}

TradeNext ==
    \/ \E symbol \in Symbols : SelectStock(symbol)
    \/ \E i \in 1..MaxInFlight : QuoteResolve(i)
    \/ \E ms \in PollDelays : Wait(ms)
    \/ IntervalFire
    \/ \E value \in Quantities : SetQuantity(value)
    \/ \E which \in {"buy", "sell"} : TradeClick(which)
    \/ \E ok \in BOOLEAN : TradeResolve(ok)
    \/ RefreshResolve
    \/ UnmountTradePage

TradeSpec == TradeInit /\ [][TradeNext]_vars

\* every request of the page is answered, and the timer fires when it is due
FairTradeSpec ==
    /\ TradeSpec
    /\ WF_vars(\E ok \in BOOLEAN : TradeResolve(ok))
    /\ WF_vars(RefreshResolve)

----------------------------------------------------------------------------
(* C26: quote responses that arrive late *)

\* the loadQuote calls in flight whose effect has been cleaned up
Stale(page) == {i \in 1..Len(page.fetches) : ~page.fetches[i].mounted}

\* the state of the component, without the requests it awaits and what is recorded
\* of them
Shown(page) ==
    [page EXCEPT !.fetches = <<>>, !.quoteSeen = NoQuoteSeen,
                 !.trade = NoTrade, !.tradeSeen = NoTradeSeen]

\* the response of a cleaned-up loadQuote arrives: one stale call less in flight
StaleAnswered ==
    /\ Len(tradePage'.fetches) = Len(tradePage.fetches) - 1
    /\ Cardinality(Stale(tradePage')) = Cardinality(Stale(tradePage)) - 1

QuoteStep ==
    \* a late response changes nothing on the page
    /\ StaleAnswered => Shown(tradePage') = Shown(tradePage)
    \* quote only ever becomes a quote of the symbol selected when it arrives
    /\ (tradePage'.quote # tradePage.quote /\ tradePage'.quote # NoQuote) =>
          /\ tradePage.mounted
          /\ tradePage'.quote.symbol = tradePage.selectedStock.symbol
          /\ tradePage'.selectedStock.symbol = tradePage.selectedStock.symbol
    \* selectedStock.price only ever becomes the price of such a quote
    /\ (tradePage'.selectedStock.price # tradePage.selectedStock.price
           /\ tradePage'.selectedStock.price # 0) =>
          /\ tradePage'.selectedStock.symbol = tradePage.selectedStock.symbol
          /\ tradePage'.quote.symbol = tradePage.selectedStock.symbol
          /\ tradePage'.selectedStock.price = tradePage'.quote.currentPrice
          /\ tradePage'.selectedStock.price
                \in QuotePrices(tradePage.selectedStock.symbol)
    \* a timer that is due fires a loadQuote for the selected symbol
    /\ (tradePage.interval.active /\ tradePage'.interval.active
           /\ tradePage'.interval.since < tradePage.interval.since
           /\ tradePage'.selectedStock.symbol = tradePage.selectedStock.symbol) =>
          /\ tradePage.interval.since = QUOTE_INTERVAL
          /\ tradePage'.fetches =
                Append(tradePage.fetches, QuoteFetch(tradePage.selectedStock.symbol))
    \* after the unmount nothing on the page changes any more
    /\ ~tradePage.mounted => Shown(tradePage') = Shown(tradePage)

\* C26: once the selected symbol has changed, the selection is cleared or the page
\* is unmounted, a quote response still in flight for the earlier selection changes
\* neither quote nor selectedStock.price, and the timer of that selection is
\* cleared; while a symbol stays selected a timer for that symbol runs and fires a
\* new fetch of its quote whenever 10 seconds have passed
C26_StaleQuoteDropped ==
    /\ [](/\ \A i \in 1..Len(tradePage.fetches) :
               tradePage.fetches[i].mounted =>
                  /\ tradePage.mounted
                  /\ tradePage.fetches[i].symbol = tradePage.selectedStock.symbol
          /\ tradePage.interval.active <=>
                (tradePage.mounted /\ tradePage.selectedStock # NoStock)
          /\ tradePage.interval.active =>
                /\ tradePage.interval.symbol = tradePage.selectedStock.symbol
                /\ tradePage.interval.since <= QUOTE_INTERVAL)
    /\ [][QuoteStep]_vars

\* Y is selected and shows its quote; the response for X, selected before, has
\* arrived after that and was dropped, and the timer of Y has fired since
C26_Witness ==
    /\ tradePage.mounted
    /\ tradePage.selectedStock.symbol = SymY
    /\ tradePage.quote.symbol = SymY
    /\ tradePage.selectedStock.price \in QuotePrices(SymY)
    /\ tradePage.quoteSeen = [symbol |-> SymX, applied |-> FALSE]
    /\ tradePage.interval.active
    /\ \E i \in 1..Len(tradePage.fetches) : tradePage.fetches[i] = QuoteFetch(SymY)

----------------------------------------------------------------------------
(* C27: loading during executeTrade *)

TradeStep ==
    \* no trade is started, and the quantity is not edited, while one is in flight
    /\ (tradePage.trade.pc # "idle" /\ tradePage'.trade.pc = "trading") =>
          tradePage'.trade = tradePage.trade
    /\ (tradePage.trade.pc = "trading" /\ tradePage.mounted) =>
          tradePage'.quantity = tradePage.quantity
    \* the refresh is awaited only after a trade that succeeded
    /\ (tradePage'.trade.pc = "refreshing" /\ tradePage.trade.pc # "refreshing") =>
          /\ tradePage.trade.pc = "trading"
          /\ tradePage'.selectedStock = tradePage.selectedStock
          /\ tradePage.mounted => tradePage'.confirm = Confirm(TRUE)
    \* failure: no refresh, selection and quantity kept, loading false
    /\ (tradePage.trade.pc = "trading" /\ tradePage'.trade.pc = "idle") =>
          /\ tradePage'.tradeSeen.outcome = "failed"
          /\ ~tradePage'.tradeSeen.refreshed
          /\ tradePage'.selectedStock = tradePage.selectedStock
          /\ tradePage.mounted =>
                /\ tradePage'.quantity = tradePage.trade.quantity
                /\ tradePage'.confirm = Confirm(FALSE)
                /\ ~tradePage'.loading
    \* success: the form is reset when the awaited refresh has resolved
    /\ (tradePage.trade.pc = "refreshing" /\ tradePage'.trade.pc = "idle") =>
          /\ tradePage'.tradeSeen.outcome = "ok"
          /\ tradePage'.tradeSeen.refreshed
          /\ tradePage.mounted =>
                /\ tradePage'.selectedStock = NoStock
                /\ tradePage'.quantity = 0
                /\ tradePage'.confirm = Confirm(TRUE)
                /\ ~tradePage'.loading
    \* nothing else clears the selection
    /\ (tradePage.selectedStock # NoStock /\ tradePage'.selectedStock = NoStock) =>
          tradePage.trade.pc = "refreshing"

\* C27: from the start of executeTrade to its end loading is true, and the Buy and
\* Sell buttons and the quantity input, disabled while loading, start no second trade
\* and change no quantity; loading is false again when the request has failed or
\* the refresh after a successful request has resolved, which always happens; the
\* form is reset only after that refresh, and a failed request causes no refresh
\* and keeps selection and quantity
C27_TradeLoading ==
    /\ [](tradePage.mounted =>
             (tradePage.loading <=> tradePage.trade.pc # "idle"))
    /\ [][TradeStep]_vars
    /\ (tradePage.mounted /\ tradePage.loading)
          ~> (~tradePage.mounted \/ ~tradePage.loading)

\* a buy of 5 Y succeeded, the refresh resolved and the form has been reset
C27_Witness ==
    /\ tradePage.mounted
    /\ tradePage.tradeSeen = [outcome |-> "ok", refreshed |-> TRUE, reset |-> TRUE]
    /\ tradePage.side = "buy"
    /\ tradePage.confirm = Confirm(TRUE)
    /\ tradePage.selectedStock = NoStock
    /\ tradePage.quantity = 0
    /\ ~tradePage.loading
    /\ tradePage.quoteSeen.symbol = SymY

----------------------------------------------------------------------------
(* part_000: App, its login, logout and portfolio load *)

\* the response of POST /users/login as onLoginSuccess reads it (lines 69-70):
\* token is NoToken when the response carries none
LoginResponse(username, token, admin) ==
    [username |-> username, token |-> token, admin |-> admin]

\* a call of loadPortfolioFromApi waiting at line 119: whose portfolio the
\* credentials it sent belong to, and whether onLoginSuccess awaits it (85, 87)
PortfolioLoad(username, awaited) == [username |-> username, awaited |-> awaited]

\* lines 111-119: loadPortfolioFromApi up to its await, for the credentials it
\* resolved; NoUser stands for missing credentials
loadPortfolioFromApi(a, username, awaited) ==
    IF username = NoUser
    THEN [a EXCEPT !.portfolioError = TRUE]
    ELSE [a EXCEPT !.portfolioError = FALSE, !.portfolioLoading = TRUE,
                   !.loads = Append(a.loads, PortfolioLoad(username, awaited))]

\* lines 112-115: the user of the credentials a call without arguments resolves
CredentialsOf(a) ==
    IF a.authToken # NoToken THEN a.authToken.username
    ELSE IF a.authUsername # NoUser /\ a.authPassword # <<>> THEN a.authUsername
    ELSE NoUser

\* lines 120-127: loadPortfolioFromApi after its await
portfolioAnswered(a, load, ok) ==
    IF ok
    THEN [a EXCEPT !.apiPortfolio = PortfolioResponse(load.username),
                   !.holdings = PortfolioResponse(load.username),
                   !.portfolioLoading = FALSE]
    ELSE [a EXCEPT !.portfolioError = TRUE, !.portfolioLoading = FALSE]

\* lines 62-67: onLoginSuccess up to the await of login()
onLoginSuccess(a, username, password) ==
    [a EXCEPT !.authError = FALSE, !.authLoading = TRUE,
              !.login = [pending |-> TRUE, username |-> username,
                         password |-> password]]

\* lines 69-88: onLoginSuccess after login() has resolved, up to the await of
\* loadPortfolioFromApi
loginAnswered(a, resp) ==
    LET b == [a EXCEPT !.role = IF resp.admin THEN "admin" ELSE "user",
                       !.authToken = IF resp.token # NoToken THEN resp.token ELSE @,
                       !.authUsername =
                           IF resp.token # NoToken THEN @ ELSE a.login.username,
                       !.authPassword =
                           IF resp.token # NoToken THEN @ ELSE a.login.password,
                       !.isAuthed = TRUE,
                       !.route = "portfolio",
                       !.login = NoLogin,
                       !.loginSeen = [username |-> resp.username,
                                      admin |-> resp.admin]]
    IN  loadPortfolioFromApi(b, resp.username, TRUE)

\* lines 89-95: login() has rejected
loginRejected(a) ==
    [a EXCEPT !.authError = TRUE, !.isAuthed = FALSE, !.authLoading = FALSE,
              !.login = NoLogin]

\* faulty alternative: the role outlives the session
onLogoutKeepRole(a) ==
    [a EXCEPT !.isAuthed = FALSE, !.route = "login",
              !.authToken = NoToken, !.authUsername = NoUser,
              !.authPassword = <<>>]

\* lines 97-106
onLogout(a) ==
    [a EXCEPT !.isAuthed = FALSE, !.route = "login", !.role = "user",
              !.authToken = NoToken, !.authUsername = NoUser,
              !.authPassword = <<>>]

\* line 109
showAdmin(a) == a.role = "admin"

\* lines 141-143 and 171-175: <AdminPage token={authToken} /> is rendered
AdminPageRendered(a) ==
    a.mounted /\ a.isAuthed /\ a.route = "admin" /\ showAdmin(a)
        /\ a.authToken # NoToken

\* lines 141-161: <PortfolioPage holdings={holdings} .. /> is rendered, with the
\* download of apiPortfolio
PortfolioPageRendered(a) ==
    a.mounted /\ a.isAuthed /\ a.route = "portfolio"

\* lines 134-136: <LoginScreen loading={authLoading} /> is rendered
LoginScreenRendered(a) ==
    a.mounted /\ ~a.isAuthed /\ a.route = "login"

\* the routes the buttons of TopNav (PortfolioPage.tsx 249-253, 267-271), the tabs
\* (143-148), the menu (onLogin) and the links of the login and register screens
\* lead to
Reachable(a) ==
    {"portfolio", "trade"}
        \cup (IF showAdmin(a) THEN {"admin"} ELSE {})
        \cup (IF a.isAuthed THEN {} ELSE {"login", "register"})

\* the form of LoginScreen is submitted (AuthScreens.tsx 15-19, 30, 42); its button
\* is disabled while authLoading
LoginSubmit(username, password) ==
    /\ LoginScreenRendered(app)
    /\ ~app.authLoading
    /\ app' = onLoginSuccess(app, username, password)
    /\ UNCHANGED <<server, tradePage, newsList>>

\* POST /users/login answers 200, with or without a token and with the roles the
\* account has at that time
LoginResolve(hasToken, admin) ==
    /\ app.login.pending
    /\ Len(app.loads) < MaxInFlight
    /\ app' = loginAnswered(app,
                 LoginResponse(app.login.username,
                               IF hasToken THEN Token(app.login.username)
                               ELSE NoToken,
                               admin))
    /\ UNCHANGED <<server, tradePage, newsList>>

\* POST /users/login answers an error, or the request fails
LoginReject ==
    /\ app.login.pending
    /\ app' = loginRejected(app)
    /\ UNCHANGED <<server, tradePage, newsList>>

\* the portfolio is loaded again from a page of the session: the button of
\* PortfolioPage (onLoadFromApi, line 154) or the refresh after a trade (line 167)
LoadClick ==
    /\ app.mounted
    /\ app.isAuthed
    /\ app.route \in {"portfolio", "trade"}
    /\ Len(app.loads) < MaxInFlight
    /\ app' = loadPortfolioFromApi(app, CredentialsOf(app), FALSE)
    /\ UNCHANGED <<server, tradePage, newsList>>

\* POST /portfolio/all answers a load; the onLoginSuccess that awaits it ends
\* (lines 93-95)
LoadResolve(i, ok) ==
    /\ i \in 1..Len(app.loads)
    /\ LET load == app.loads[i]
           a == portfolioAnswered(app, load, ok)
       IN  app' = [a EXCEPT !.loads = Without(app.loads, i),
                            !.authLoading = IF load.awaited THEN FALSE ELSE @]
    /\ UNCHANGED <<server, tradePage, newsList>>

\* Logout of the menu of TopNav (PortfolioPage.tsx 291-292), shown when isAuthed
Logout ==
    /\ app.mounted
    /\ app.isAuthed
    /\ app' = onLogout(app)
    /\ UNCHANGED <<server, tradePage, newsList>>

\* setRoute by a button, a tab or a link
SetRoute(route) ==
    /\ app.mounted
    /\ route \in Reachable(app)
    /\ route # app.route
    /\ app' = [app EXCEPT !.route = route]
    /\ UNCHANGED <<server, tradePage, newsList>>

AppInit ==
    /\ ServerAside
    /\ tradePage = NoTradePage
    /\ app = [NoApp EXCEPT !.mounted = TRUE]
    /\ newsList = NoNewsList

AppNext ==
    \/ \E username \in {Ann, Bob} : LoginSubmit(username, PasswordAnn)
    \/ \E hasToken \in BOOLEAN, admin \in BOOLEAN : LoginResolve(hasToken, admin)
    \/ LoginReject
    \/ LoadClick
    \/ \E i \in 1..MaxInFlight, ok \in BOOLEAN : LoadResolve(i, ok)
    \/ Logout
    \/ \E route \in {"portfolio", "trade", "admin", "login", "register"} :
          SetRoute(route)

AppSpec == AppInit /\ [][AppNext]_vars

----------------------------------------------------------------------------
(* C28: what a session leaves behind *)

\* C28 as claimed: the portfolio page of a session shows no holdings and offers no
\* apiPortfolio loaded for another user than the one who logged in
C28_NoForeignPortfolio ==
    PortfolioPageRendered(app) =>
        /\ app.holdings.username \in {NoUser, app.loginSeen.username}
        /\ app.apiPortfolio.username \in {NoUser, app.loginSeen.username}

\* the part of the claim that holds: without a session the client holds no token,
\* no username, no password and the role 'user', and the step of onLogout leaves
\* the route 'login'
C28_LogoutClears ==
    /\ [](~app.isAuthed =>
             /\ app.authToken = NoToken
             /\ app.authUsername = NoUser
             /\ app.authPassword = <<>>
             /\ app.role = "user")
    /\ [][(app.isAuthed /\ ~app'.isAuthed) => app'.route = "login"]_vars

----------------------------------------------------------------------------
(* C29: the role and the admin page *)

\* role changes only when login() has answered successfully or on logout
RoleStep ==
    app'.role # app.role =>
        \/ /\ app.login.pending
           /\ ~app'.login.pending
           /\ app'.isAuthed
           /\ app'.loginSeen.username = app.login.username
           /\ app'.role = IF app'.loginSeen.admin THEN "admin" ELSE "user"
        \/ /\ app.isAuthed
           /\ ~app'.isAuthed
           /\ app'.role = "user"

\* C29: AdminPage is rendered only when isAuthed, role 'admin' and a token is held;
\* role is 'admin' only during a session whose login response, the most recent
\* successful one, listed 'admin'; a login response without 'admin' leaves role
\* 'user', so does logout, and nothing else changes role
C29_AdminOnly ==
    /\ [](/\ AdminPageRendered(app) =>
                /\ app.isAuthed
                /\ app.role = "admin"
                /\ app.authToken # NoToken
                /\ app.authToken = Token(app.loginSeen.username)
          /\ app.role = "admin" => (app.isAuthed /\ app.loginSeen.admin)
          /\ app.isAuthed =>
                app.role = IF app.loginSeen.admin THEN "admin" ELSE "user"
          /\ ~app.isAuthed => app.role = "user")
    /\ [][RoleStep]_vars

\* Ann has logged in after Bob's session, her login response listed 'admin' and
\* carried a token, and the admin page is on screen
C29_Witness ==
    /\ AdminPageRendered(app)
    /\ app.loginSeen = [username |-> Ann, admin |-> TRUE]
    /\ app.holdings.username = Bob

----------------------------------------------------------------------------
(* news-list.tsx: NewsList *)

\* the lists /news answers with (after slice(0, limit)); they differ per response
NewsData == {<<"n1">>, <<"n2">>}

\* a fetchNews('general') in flight: started by the effect ("load", with the
\* `mounted` of its closure) or by the Refresh button ("refresh"); latest marks the
\* one started last
NewsFetch(kind) == [kind |-> kind, mounted |-> TRUE, latest |-> TRUE]

\* a new fetch joins those in flight
Started(n, kind) ==
    [n EXCEPT !.fetches =
                 Append([i \in 1..Len(n.fetches) |->
                            [n.fetches[i] EXCEPT !.latest = FALSE]],
                        NewsFetch(kind)),
              !.newsSeen = NoNewsSeen]

\* lines 13-17: load() up to its await
load(n) ==
    Started([n EXCEPT !.loading = TRUE, !.error = FALSE], "load")

\* lines 18-27: load() after its await; data is NoItems with ok = FALSE
loadAnswered(n, fetch, ok, data) ==
    IF ~fetch.mounted THEN n
    ELSE IF ok THEN [n EXCEPT !.items = data, !.loading = FALSE]
    ELSE [n EXCEPT !.error = TRUE, !.items = NoItems, !.loading = FALSE]

\* line 41: the handlers of the promise of Refresh; a setter called for a component
\* that is no longer mounted changes nothing
refreshAnswered(n, ok, data) ==
    IF ~n.mounted THEN n
    ELSE IF ok THEN [n EXCEPT !.items = data]
    ELSE [n EXCEPT !.error = TRUE]

\* lines 47-66: what CardContent renders
Rendered(n) ==
    IF n.loading THEN "loading"
    ELSE IF n.error THEN "error"
    ELSE IF Len(n.items) = 0 THEN "none"
    ELSE "list"

\* the component as mounted: the effect has started load() (lines 11, 29)
OpenNewsList == load([NoNewsList EXCEPT !.mounted = TRUE])

\* the Refresh button (lines 41-43)
RefreshClick ==
    /\ newsList.mounted
    /\ Len(newsList.fetches) < MaxInFlight
    /\ newsList' = Started(newsList, "refresh")
    /\ UNCHANGED <<server, tradePage, app>>

\* /news answers the i-th fetch in flight, or the fetch fails
NewsResolve(i, ok) ==
    /\ i \in 1..Len(newsList.fetches)
    /\ \E data \in IF ok THEN NewsData \cup {NoItems} ELSE {NoItems} :
          LET fetch == newsList.fetches[i]
              n == IF fetch.kind = "load"
                   THEN loadAnswered(newsList, fetch, ok, data)
                   ELSE refreshAnswered(newsList, ok, data)
          IN  newsList' =
                 [n EXCEPT !.fetches = Without(newsList.fetches, i),
                           !.newsSeen =
                               IF fetch.latest
                               THEN [answered |-> TRUE, ok |-> ok, data |-> data]
                               ELSE @]
    /\ UNCHANGED <<server, tradePage, app>>

\* the component is unmounted: the cleanup of line 30
UnmountNewsList ==
    /\ newsList.mounted
    /\ newsList' =
          [newsList EXCEPT !.mounted = FALSE,
              !.fetches = [i \in 1..Len(newsList.fetches) |->
                              [newsList.fetches[i] EXCEPT !.mounted = FALSE]]]
    /\ UNCHANGED <<server, tradePage, app>>

NewsListInit ==
    /\ ServerAside
    /\ tradePage = NoTradePage
    /\ app = NoApp
    /\ newsList = OpenNewsList

NewsListNext ==
    \/ RefreshClick
    \/ \E i \in 1..MaxInFlight, ok \in BOOLEAN : NewsResolve(i, ok)
    \/ UnmountNewsList

NewsListSpec == NewsListInit /\ [][NewsListNext]_vars

----------------------------------------------------------------------------
(* C30: what NewsList renders *)

\* C30 as claimed: when the fetch started last has succeeded, the list it fetched is
\* rendered, not an error message left by an earlier fetch
C30_LatestFetchShown ==
    (newsList.mounted /\ newsList.newsSeen.answered /\ newsList.newsSeen.ok) =>
        /\ newsList.items = newsList.newsSeen.data
        /\ Rendered(newsList) = IF newsList.newsSeen.data = NoItems THEN "none"
                                ELSE "list"

\* the parts of the claim that hold: when the load of the effect was the only fetch
\* and succeeded, its list is rendered; and after the unmount no response changes
\* items, loading or error
C30_LoadShown ==
    /\ [](( /\ newsList.mounted
            /\ newsList.newsSeen.answered
            /\ newsList.newsSeen.ok
            /\ ~newsList.error
            /\ newsList.fetches = <<>> ) =>
               (~newsList.loading /\ Rendered(newsList) \in {"list", "none"}))
    /\ [][~newsList.mounted =>
             /\ newsList'.items = newsList.items
             /\ newsList'.loading = newsList.loading
             /\ newsList'.error = newsList.error]_vars

====
